---- MODULE Spec2Model ----
(***************************************************************************)
(* Model of the MCP Atlassian server: the stdio protocol loop              *)
(* (MCPAtlassianServer.run), the message router (process_message and its   *)
(* _handle_* methods), the chain of command handlers, the ConfigManager     *)
(* singleton and the construction of the Jira / Confluence adapters.        *)
(*                                                                          *)
(* Python values are represented as follows.                                *)
(*   - an optional value (a key that may be absent, or None) is a sequence  *)
(*     of length 0 or 1;                                                     *)
(*   - a dict is a function whose domain is the set of its keys;            *)
(*   - a JSON value whose shape matters is a record with a "kind" tag;      *)
(*   - an exception is a record [raised |-> TRUE, error |-> str(e)].        *)
(***************************************************************************)
EXTENDS Integers, Sequences, FiniteSets

VARIABLES
    env,              \* os.environ, fixed for the life of the process
    config,           \* ConfigManager._config
    jira_api,         \* MCPAtlassianServer.jira_api
    confluence_api,   \* MCPAtlassianServer.confluence_api
    command_handler,  \* MCPAtlassianServer.command_handler (head of the chain)
    state,            \* "running" | "terminated": the loop of run()
    exitCode,         \* process exit status once terminated (-1 while running)
    event,            \* where the loop is: "ready" (about to read a line), "line" (a
                      \* line was handled), or what ended it: "interrupt", "ioerror", "eof"
    line,             \* the input line handled in this iteration
    response,         \* the output line written for it ([kind |-> "none"] if none)
    written,          \* number of output lines written while handling it
    calls,            \* adapter calls made while handling it
    builder,          \* a request builder of utils/builders.py: its class, the
                      \* identity of its _request dict and its _jql_parts
    heap              \* the dicts and lists the builder and its callers hold, by
                      \* identity (position in the sequence)

vars == <<env, config, jira_api, confluence_api, command_handler,
          state, exitCode, event, line, response, written, calls, builder, heap>>

(***************************************************************************)
(* Bounds of the model.                                                     *)
(***************************************************************************)
NumIds == 1

Ids == 1..NumIds

(***************************************************************************)
(* Python dict and optional helpers.                                        *)
(***************************************************************************)
EmptyDict == [k \in {} |-> ""]

NoneOpt == <<>>

Some(v) == <<v>>

DictGet(d, k, default) == IF k \in DOMAIN d THEN d[k] ELSE default

DictPut(d, k, v) == [x \in (DOMAIN d) \cup {k} |-> IF x = k THEN v ELSE d[x]]

\* Truthiness of a string-valued JSON scalar: only the empty string is falsy.
Truthy(v) == v # ""

\* A truthy JSON value that is not a string (a number such as 5).
NonStr == "<number 5>"

IsStr(v) == v # NonStr

\* No builder has been created.
NoBuilder == [class |-> "none", _request |-> 0, _jql_parts |-> <<>>]

(***************************************************************************)
(* Configuration values.                                                    *)
(*   stored / pushed configuration: [kind, items]                           *)
(*     kind = "none"   ConfigManager._config is None (store unset)          *)
(*     kind = "null"   a falsy payload (null, {}, "", 0, [])                *)
(*     kind = "str"    a truthy payload without a copy() method (str, int)  *)
(*     kind = "list"   a non-empty list payload (has copy(), is no dict)    *)
(*     kind = "dict"   a dict; items maps its keys to entries               *)
(*   entry (value of a top-level key): [kind, items]                        *)
(*     kind = "scalar" a value that is no dict                              *)
(*     kind = "dict"   a dict; items maps field names to string values      *)
(***************************************************************************)
Backends == {"jira", "confluence"}

FieldNames == {"url", "username", "api_token", "auth_type"}

ConfigNone == [kind |-> "none", items |-> EmptyDict]

ConfigDict(items) == [kind |-> "dict", items |-> items]

EntryScalar == [kind |-> "scalar", items |-> EmptyDict]

EntryDict(fields) == [kind |-> "dict", items |-> fields]

NoAttr(type, attr) == "'" \o type \o "' object has no attribute '" \o attr \o "'"

\* The Python type name an entry or payload kind stands for in error messages.
TypeName(kind) ==
    CASE kind = "scalar" -> "str"
      [] kind = "str"    -> "str"
      [] kind = "list"   -> "list"
      [] kind = "null"   -> "NoneType"
      [] OTHER           -> "dict"

(***************************************************************************)
(* ConfigManager                                                            *)
(***************************************************************************)
\* A variant of set_config that updates the stored dict with the payload
\* instead of replacing it.
set_configUpdate(cfg, payload) ==
    CASE payload.kind = "null" ->
            [raised |-> FALSE, error |-> "",
             config |-> IF cfg.kind = "dict" THEN cfg ELSE ConfigDict(EmptyDict)]
      [] payload.kind = "str" ->
            [raised |-> TRUE, error |-> NoAttr("str", "copy"), config |-> cfg]
      [] payload.kind = "list" ->
            [raised |-> FALSE, error |-> "", config |-> [kind |-> "list", items |-> EmptyDict]]
      [] OTHER ->
            [raised |-> FALSE, error |-> "",
             config |-> ConfigDict([k \in (DOMAIN payload.items)
                                         \cup (IF cfg.kind = "dict" THEN DOMAIN cfg.items ELSE {})
                                    |-> IF k \in DOMAIN payload.items
                                        THEN payload.items[k] ELSE cfg.items[k]])]

\* set_config: self._config = config.copy() if config else {}
\* Returns [raised, error, config]: a truthy payload without copy() raises
\* AttributeError and leaves the store as it was.
set_config(cfg, payload) ==
    CASE payload.kind = "null" ->
            [raised |-> FALSE, error |-> "", config |-> ConfigDict(EmptyDict)]
      [] payload.kind = "str" ->
            [raised |-> TRUE, error |-> NoAttr("str", "copy"), config |-> cfg]
      [] payload.kind = "list" ->
            [raised |-> FALSE, error |-> "", config |-> [kind |-> "list", items |-> EmptyDict]]
      [] OTHER ->
            [raised |-> FALSE, error |-> "", config |-> ConfigDict(payload.items)]

\* The field names get_all_config treats as secrets.
SecretNames == {"api_token", "token", "password"}

\* get_all_config: {} for an unset store; otherwise a copy of the store in
\* which, inside every top-level entry that is a dict, each field named in
\* SecretNames holds "***" when truthy and "not set" otherwise. Entries that
\* are no dict are copied as they are. A list store has no items().
\* Returns [raised, error, value].
get_all_config(cfg) ==
    CASE cfg.kind = "none" -> [raised |-> FALSE, error |-> "", value |-> EmptyDict]
      [] cfg.kind = "list" ->
            [raised |-> TRUE, error |-> NoAttr("list", "items"), value |-> EmptyDict]
      [] OTHER ->
            [raised |-> FALSE, error |-> "",
             value |-> [service \in DOMAIN cfg.items |->
                          IF cfg.items[service].kind = "dict"
                          THEN EntryDict([key \in DOMAIN cfg.items[service].items |->
                                            IF key \in SecretNames
                                            THEN IF Truthy(cfg.items[service].items[key])
                                                 THEN "***" ELSE "not set"
                                            ELSE cfg.items[service].items[key]])
                          ELSE cfg.items[service]]]

\* A variant of is_configured that tests the truthiness of the store.
is_configuredTruthy(cfg) == cfg.kind = "list" \/ (cfg.kind = "dict" /\ cfg.items # EmptyDict)

is_configured(cfg) == cfg.kind # "none"

\* key.split('.') for the keys of the model.
split(key) ==
    CASE key = "jira.url"               -> <<"jira", "url">>
      [] key = "jira.username"          -> <<"jira", "username">>
      [] key = "jira.url.scheme"        -> <<"jira", "url", "scheme">>
      [] key = "confluence.username"    -> <<"confluence", "username">>
      [] key = "initialized_from_env.x" -> <<"initialized_from_env", "x">>
      [] key = "nonexistent.key"        -> <<"nonexistent", "key">>
      [] OTHER                          -> <<key>>

RECURSIVE Walk(_, _, _, _)
\* The loop of get over the segments keys, from value, which lies depth levels
\* below the store: "isinstance(value, dict) and k in value" holds for the
\* store and for an entry of kind "dict", never for a field value.
Walk(value, keys, default, depth) ==
    IF keys = <<>> THEN value
    ELSE IF depth < 2 /\ value.kind = "dict" /\ Head(keys) \in DOMAIN value.items
    THEN Walk(value.items[Head(keys)], Tail(keys), default, depth + 1)
    ELSE default

\* A variant of get that looks the whole key up in the store, without
\* splitting it at the dots.
getUnsplit(cfg, key, default) ==
    IF cfg.kind = "none" THEN default ELSE Walk(cfg, <<key>>, default, 0)

\* get(key, default): the value reached through the segments of key, or the
\* default when the store is unset, a segment is missing, or a segment is
\* looked up in a value that is no dict.
get(cfg, key, default) ==
    IF cfg.kind = "none" THEN default ELSE Walk(cfg, split(key), default, 0)

\* os.getenv(name, default)
Unset == "<unset>"

getenv(e, name, default) == IF e[name] = Unset THEN default ELSE e[name]

Upper(backend) == IF backend = "jira" THEN "JIRA" ELSE "CONFLUENCE"

UpperField(field) ==
    CASE field = "url"       -> "URL"
      [] field = "username"  -> "USERNAME"
      [] field = "api_token" -> "API_TOKEN"
      [] field = "auth_type" -> "AUTH_TYPE"

EnvLower(backend, field) == backend \o "_" \o field

EnvUpper(backend, field) == Upper(backend) \o "_" \o UpperField(field)

EnvNames == { EnvLower(b, f) : b \in Backends, f \in FieldNames }
            \cup { EnvUpper(b, f) : b \in Backends, f \in FieldNames }

\* One "if not cfg.get(field): cfg[field] = os.getenv(lower, os.getenv(UPPER,
\* cfg.get(field, default)))" statement, on the dict d.
ResolveField(d, e, backend, field, default) ==
    IF Truthy(DictGet(d, field, ""))
    THEN d
    ELSE DictPut(d, field,
                 getenv(e, EnvLower(backend, field),
                        getenv(e, EnvUpper(backend, field), DictGet(d, field, default))))

\* The four statements of get_jira_config / get_confluence_config on the dict d.
ResolveFields(d, e, backend) ==
    LET d1 == ResolveField(d, e, backend, "url", "")
        d2 == ResolveField(d1, e, backend, "username", "")
        d3 == ResolveField(d2, e, backend, "api_token", "")
    IN  ResolveField(d3, e, backend, "auth_type", "basic")

\* The result of get_*_config once the fields are resolved: the resolved dict,
\* which is the stored entry itself when the store holds one for the backend.
StoreResolved(cfg, backend, resolved) ==
    [raised |-> FALSE, error |-> "", value |-> resolved,
     config |-> IF cfg.kind = "dict" /\ backend \in DOMAIN cfg.items
                THEN ConfigDict(DictPut(cfg.items, backend, EntryDict(resolved)))
                ELSE cfg]

\* get_*_config from the entry self.get(backend, {}) returned: an entry that is
\* no dict has no get() and raises AttributeError.
ResolveEntry(cfg, e, backend, entry) ==
    IF entry.kind # "dict"
    THEN [raised |-> TRUE, error |-> NoAttr(TypeName(entry.kind), "get"),
          value |-> EmptyDict, config |-> cfg]
    ELSE StoreResolved(cfg, backend, ResolveFields(entry.items, e, backend))

\* get_jira_config / get_confluence_config. self.get(backend, {}) returns the
\* stored entry itself, so the assignments write into the stored configuration.
\* Returns [raised, error, value (the resolved dict), config (the store after)].
get_backend_config(cfg, e, backend) ==
    ResolveEntry(cfg, e, backend, get(cfg, backend, EntryDict(EmptyDict)))

get_jira_config(cfg, e) == get_backend_config(cfg, e, "jira")

get_confluence_config(cfg, e) == get_backend_config(cfg, e, "confluence")

\* A variant of Complete that does not look at the api_token.
CompleteWithoutToken(d) ==
    /\ Truthy(DictGet(d, "url", ""))
    /\ Truthy(DictGet(d, "username", ""))

\* all([d.get('url'), d.get('username'), d.get('api_token')])
Complete(d) ==
    /\ Truthy(DictGet(d, "url", ""))
    /\ Truthy(DictGet(d, "username", ""))
    /\ Truthy(DictGet(d, "api_token", ""))

NoValidation == [jira |-> FALSE, confluence |-> FALSE, overall |-> FALSE]

\* validate_configuration once both configurations j and c are resolved.
ValidateResolved(j, c) ==
    IF c.raised
    THEN [raised |-> TRUE, error |-> c.error, value |-> NoValidation, config |-> c.config]
    ELSE [raised |-> FALSE, error |-> "",
          value |-> [jira |-> Complete(j.value),
                     confluence |-> Complete(c.value),
                     overall |-> Complete(j.value) \/ Complete(c.value)],
          config |-> c.config]

\* validate_configuration from the result j of get_jira_config.
ValidateFromJira(j, e) ==
    IF j.raised
    THEN [raised |-> TRUE, error |-> j.error, value |-> NoValidation, config |-> j.config]
    ELSE ValidateResolved(j, get_confluence_config(j.config, e))

\* validate_configuration. Returns [raised, error, value, config]; value is the
\* dict {jira, confluence, overall}.
validate_configuration(cfg, e) == ValidateFromJira(get_jira_config(cfg, e), e)

\* The check mark and the cross of the status text.
Mark(ok) == IF ok THEN "Y" ELSE "N"

\* The status text for the validation v.
StatusText(v) ==
    [raised |-> v.raised, error |-> v.error,
     value |-> IF v.raised THEN ""
               ELSE "Configuration status - Jira: " \o Mark(v.value.jira)
                    \o ", Confluence: " \o Mark(v.value.confluence),
     config |-> v.config]

\* get_configuration_status. Returns [raised, error, value (the text), config].
get_configuration_status(cfg, e) ==
    IF ~is_configured(cfg)
    THEN [raised |-> FALSE, error |-> "", value |-> "Not configured", config |-> cfg]
    ELSE StatusText(validate_configuration(cfg, e))

(***************************************************************************)
(* Adapters (APIStrategy.__init__, JiraAPI, ConfluenceAPI)                  *)
(***************************************************************************)
NoApi == [present |-> FALSE, backend |-> "", base_url |-> "", username |-> "",
          api_token |-> "", auth_type |-> "", auth |-> ""]

\* str.rstrip('/') on the URLs of the model.
rstrip(url) == IF url = "https://a/" THEN "https://a" ELSE url

\* _setup_authentication: the authentication the session ends up with.
_setup_authentication(username, api_token, auth_type) ==
    IF auth_type = "bearer" THEN "bearer"
    ELSE IF Truthy(username) /\ Truthy(api_token) THEN "basic"
    ELSE "none"

\* APIStrategy.__init__: base_url.rstrip('/') raises AttributeError when the
\* url is no string. Returns [raised, error, api].
APIStrategy(backend, base_url, username, api_token, auth_type) ==
    IF ~IsStr(base_url)
    THEN [raised |-> TRUE, error |-> NoAttr("int", "rstrip"), api |-> NoApi]
    ELSE [raised |-> FALSE, error |-> "",
          api |-> [present |-> TRUE, backend |-> backend, base_url |-> rstrip(base_url),
                   username |-> username, api_token |-> api_token,
                   auth_type |-> auth_type,
                   auth |-> _setup_authentication(username, api_token, auth_type)]]

\* JiraAPI(url, username, api_token): auth_type keeps its default 'basic'.
JiraAPI(base_url, username, api_token) ==
    APIStrategy("jira", base_url, username, api_token, "basic")

ConfluenceAPI(base_url, username, api_token) ==
    APIStrategy("confluence", base_url, username, api_token, "basic")

(***************************************************************************)
(* Commands                                                                 *)
(***************************************************************************)
SystemCommandNames == <<"ping", "health", "config_status", "list_commands">>

JiraCommandNames ==
    <<"create_jira_issue", "update_jira_issue", "delete_jira_issue",
      "create_jira_subtask", "search_jira_issues", "get_jira_debug_info">>

ConfluenceCommandNames ==
    <<"create_confluence_page", "update_confluence_page", "delete_confluence_page",
      "search_confluence_pages", "search_confluence_pages_by_parent",
      "get_confluence_debug_info">>

Range(seq) == { seq[i] : i \in 1..Len(seq) }

\* The required argument names each command passes to validate_args.
RequiredFields(name) ==
    CASE name = "create_jira_issue"      -> <<"project", "summary", "issuetype">>
      [] name = "update_jira_issue"      -> <<"issue_key">>
      [] name = "delete_jira_issue"      -> <<"issue_key">>
      [] name = "create_jira_subtask"    -> <<"parent_key", "summary">>
      [] name = "create_confluence_page" -> <<"space", "title", "content">>
      [] name = "update_confluence_page" -> <<"page_id">>
      [] name = "delete_confluence_page" -> <<"page_id">>
      [] name = "search_confluence_pages_by_parent" -> <<"parent_id">>
      [] OTHER -> <<>>

\* The adapter method each command calls.
AdapterMethod(name) ==
    CASE name \in {"create_jira_issue", "create_confluence_page"} -> "create"
      [] name \in {"update_jira_issue", "update_confluence_page"} -> "update"
      [] name \in {"delete_jira_issue", "delete_confluence_page"} -> "delete"
      [] name = "create_jira_subtask" -> "create_subtask"
      [] name \in {"search_jira_issues", "search_confluence_pages"} -> "search"
      [] name = "search_confluence_pages_by_parent" -> "search_by_parent"
      [] OTHER -> "get_debug_info"

RECURSIVE Join(_, _)
\* sep.join(seq)
Join(seq, sep) ==
    IF seq = <<>> THEN ""
    ELSE IF Len(seq) = 1 THEN seq[1]
    ELSE seq[1] \o sep \o Join(Tail(seq), sep)

\* A variant of MissingFields that stops at the first missing name.
MissingFieldsFirstOnly(args, required_fields) ==
    IF SelectSeq(required_fields, LAMBDA f : f \notin args) = <<>>
    THEN <<>>
    ELSE <<Head(SelectSeq(required_fields, LAMBDA f : f \notin args))>>

\* Command.validate_args: the missing names, in the order of required_fields.
\* args is the set of argument names present with a non-null value.
MissingFields(args, required_fields) ==
    SelectSeq(required_fields, LAMBDA f : f \notin args)

\* str(e) of a failed adapter call.
BackendError == "backend error"

\* A variant of execute without the try block around the adapter call: the
\* failure of the call leaves execute as an exception.
executeUncaught(name, api, args, ok) ==
    IF MissingFields(args, RequiredFields(name)) # <<>>
    THEN [raised |-> TRUE,
          error |-> "Missing required fields: "
                    \o Join(MissingFields(args, RequiredFields(name)), ", "),
          result |-> EmptyDict, calls |-> <<>>]
    ELSE [raised |-> ~ok, error |-> IF ok THEN "" ELSE BackendError,
          result |-> IF ok
                     THEN [success |-> TRUE, message |-> name \o " done"]
                     ELSE EmptyDict,
          calls |-> <<[api |-> api, method |-> AdapterMethod(name), failed |-> ~ok]>>]

\* Command.execute for a backend command bound to adapter api: validate_args
\* raises ValueError outside the try block; a failure of the adapter call is
\* caught and becomes {success: False, error}. ok tells whether the backend
\* call succeeds. Returns [raised, error, result, calls]; calls holds the
\* adapter call made: [api, method, failed].
execute(name, api, args, ok) ==
    IF MissingFields(args, RequiredFields(name)) # <<>>
    THEN [raised |-> TRUE,
          error |-> "Missing required fields: "
                    \o Join(MissingFields(args, RequiredFields(name)), ", "),
          result |-> EmptyDict, calls |-> <<>>]
    ELSE [raised |-> FALSE, error |-> "",
          result |-> IF ok
                     THEN [success |-> TRUE, message |-> name \o " done"]
                     ELSE [success |-> FALSE, error |-> BackendError],
          calls |-> <<[api |-> api, method |-> AdapterMethod(name), failed |-> ~ok]>>]

(***************************************************************************)
(* Chain of responsibility (commands/handlers.py)                           *)
(* The chain is the sequence of handlers reached through _successor; a      *)
(* handler is [kind, commands], commands mapping each name of its dict to   *)
(* the adapter its command object is bound to.                              *)
(***************************************************************************)
SystemCommandHandler == [kind |-> "system", commands |-> EmptyDict]

JiraCommandHandler(jira_commands) == [kind |-> "jira", commands |-> jira_commands]

ConfluenceCommandHandler(confluence_commands) ==
    [kind |-> "confluence", commands |-> confluence_commands]

\* SystemCommandHandler._get_available_commands: the static table (names).
_get_available_commands ==
    SystemCommandNames \o JiraCommandNames \o ConfluenceCommandNames

NotHandled(cfg) ==
    [handled |-> FALSE, raised |-> FALSE, error |-> "", result |-> EmptyDict,
     config |-> cfg, calls |-> <<>>, by |-> ""]

Handled(result, cfg, by) ==
    [handled |-> TRUE, raised |-> FALSE, error |-> "", result |-> result,
     config |-> cfg, calls |-> <<>>, by |-> by]

HandlerRaised(error, cfg, by) ==
    [handled |-> TRUE, raised |-> TRUE, error |-> error, result |-> EmptyDict,
     config |-> cfg, calls |-> <<>>, by |-> by]

\* The config_status outcome from the status text st and the validation v.
ConfigStatusResult(cfg, st, v) ==
    IF v.raised THEN HandlerRaised(v.error, v.config, "system")
    ELSE Handled([success |-> TRUE,
                  configured |-> is_configured(cfg),
                  status |-> st.value,
                  validation |-> v.value,
                  message |-> "Configuration status retrieved"],
                 v.config, "system")

\* config_status from the result st of get_configuration_status.
ConfigStatusFrom(cfg, e, st) ==
    IF st.raised THEN HandlerRaised(st.error, st.config, "system")
    ELSE ConfigStatusResult(cfg, st, validate_configuration(st.config, e))

\* SystemCommandHandler._handle
SystemHandle(command_name, cfg, e) ==
    CASE command_name = "ping" ->
            Handled([success |-> TRUE, message |-> "pong"], cfg, "system")
      [] command_name = "health" ->
            Handled([success |-> TRUE, status |-> "healthy",
                     message |-> "MCP Atlassian server is running"], cfg, "system")
      [] command_name = "config_status" ->
            ConfigStatusFrom(cfg, e, get_configuration_status(cfg, e))
      [] command_name = "list_commands" ->
            Handled([success |-> TRUE, commands |-> _get_available_commands,
                     message |-> "Available commands listed"], cfg, "system")
      [] OTHER -> NotHandled(cfg)

\* The handler outcome of a command's execute result r.
Executed(r, cfg, by) ==
    [handled |-> TRUE, raised |-> r.raised, error |-> r.error,
     result |-> r.result, config |-> cfg, calls |-> r.calls, by |-> by]

\* JiraCommandHandler._handle / ConfluenceCommandHandler._handle
DictHandle(handler, command_name, args, cfg, ok) ==
    IF command_name \in DOMAIN handler.commands
    THEN Executed(execute(command_name, handler.commands[command_name], args, ok),
                  cfg, handler.kind)
    ELSE NotHandled(cfg)

_handle(handler, command_name, args, cfg, e, ok) ==
    IF handler.kind = "system"
    THEN SystemHandle(command_name, cfg, e)
    ELSE DictHandle(handler, command_name, args, cfg, ok)

\* A variant of UnknownCommand that leaves the name out of the error text.
UnknownCommandNoName(command_name) ==
    [success |-> FALSE, error |-> "Unknown command"]

UnknownCommand(command_name) ==
    [success |-> FALSE, error |-> "Unknown command: " \o command_name]

RECURSIVE handle(_, _, _, _, _, _)
\* What handle returns once its own _handle has returned r.
HandleResult(chain, command_name, args, e, ok, r) ==
    IF ~r.handled /\ Len(chain) > 1
    THEN handle(Tail(chain), command_name, args, r.config, e, ok)
    ELSE IF ~r.handled
    THEN Handled(UnknownCommand(command_name), r.config, "")
    ELSE r

\* CommandHandler.handle on the chain: the first handler whose _handle returns
\* a result answers; past the last one the outcome is "Unknown command".
\* Returns [handled, raised, error, result, config, calls, by].
handle(chain, command_name, args, cfg, e, ok) ==
    HandleResult(chain, command_name, args, e, ok,
                 _handle(Head(chain), command_name, args, cfg, e, ok))

(***************************************************************************)
(* MCPAtlassianServer: construction of adapters and of the chain            *)
(* A server state s is [config, jira_api, confluence_api, command_handler]. *)
(***************************************************************************)
Server(cfg, japi, capi, chain) ==
    [config |-> cfg, jira_api |-> japi, confluence_api |-> capi,
     command_handler |-> chain]

\* The dict {name: Command(api)} built for one backend.
CommandsFor(names, api) == [n \in Range(names) |-> api]

\* A variant of BuildChain that links the Confluence handler before the Jira
\* handler.
BuildChainConfluenceFirst(jira_commands, confluence_commands) ==
    <<SystemCommandHandler,
      ConfluenceCommandHandler(confluence_commands),
      JiraCommandHandler(jira_commands)>>

\* The chain System -> Jira -> Confluence built from the two command dicts.
BuildChain(jira_commands, confluence_commands) ==
    <<SystemCommandHandler,
      JiraCommandHandler(jira_commands),
      ConfluenceCommandHandler(confluence_commands)>>

\* _initialize_commands: the chain for the adapters the server holds.
_initialize_commands(japi, capi) ==
    BuildChain(IF japi.present THEN CommandsFor(JiraCommandNames, japi) ELSE EmptyDict,
               IF capi.present THEN CommandsFor(ConfluenceCommandNames, capi) ELSE EmptyDict)

\* _initialize_system_commands: the chain of the system handler alone.
_initialize_system_commands == <<SystemCommandHandler>>

\* JiraAPI(jira_config['url'], jira_config['username'], jira_config['api_token'])
JiraFromConfig(jc) == JiraAPI(jc.value["url"], jc.value["username"], jc.value["api_token"])

ConfluenceFromConfig(cc) ==
    ConfluenceAPI(cc.value["url"], cc.value["username"], cc.value["api_token"])

\* The Jira branch of _initialize_apis: [raised, error, api]. Without a valid
\* configuration the adapter the server holds is left as it is.
InitJira(s, e, valid) ==
    IF valid
    THEN JiraFromConfig(get_jira_config(s.config, e))
    ELSE [raised |-> FALSE, error |-> "", api |-> s.jira_api]

\* The Confluence branch of _initialize_apis: [raised, error, api].
InitConfluence(s, e, valid) ==
    IF valid
    THEN ConfluenceFromConfig(get_confluence_config(s.config, e))
    ELSE [raised |-> FALSE, error |-> "", api |-> s.confluence_api]

\* A variant of InitApisCommands that rebuilds the Jira group and keeps the
\* Confluence group of the chain it replaces.
InitApisCommandsJiraOnly(s, c) ==
    IF c.raised
    THEN [raised |-> TRUE, error |-> c.error, s |-> s]
    ELSE [raised |-> FALSE, error |-> "",
          s |-> [s EXCEPT !.confluence_api = c.api,
                          !.command_handler =
                              BuildChain(IF s.jira_api.present
                                         THEN CommandsFor(JiraCommandNames, s.jira_api)
                                         ELSE EmptyDict,
                                         IF Len(s.command_handler) = 3
                                         THEN s.command_handler[3].commands
                                         ELSE EmptyDict)]]

\* The end of _initialize_apis, c being the outcome of the Confluence branch:
\* the chain is rebuilt only when nothing raised.
InitApisCommands(s, c) ==
    IF c.raised
    THEN [raised |-> TRUE, error |-> c.error, s |-> s]
    ELSE [raised |-> FALSE, error |-> "",
          s |-> [s EXCEPT !.confluence_api = c.api,
                          !.command_handler = _initialize_commands(s.jira_api, c.api)]]

\* _initialize_apis after the Jira branch, s holding its adapter.
InitApisConfluence(s, e, v) ==
    InitApisCommands(s, InitConfluence(s, e, v.value.confluence))

\* _initialize_apis from the outcome j of the Jira branch.
InitApisJira(s, e, v, j) ==
    IF j.raised
    THEN [raised |-> TRUE, error |-> j.error, s |-> s]
    ELSE InitApisConfluence([s EXCEPT !.jira_api = j.api], e, v)

\* _initialize_apis from the validation v of line 44.
InitApisValidated(s, e, v) ==
    IF v.raised
    THEN [raised |-> TRUE, error |-> v.error, s |-> [s EXCEPT !.config = v.config]]
    ELSE InitApisJira([s EXCEPT !.config = v.config], e, v,
                      InitJira([s EXCEPT !.config = v.config], e, v.value.jira))

\* _initialize_apis from the status st logged at line 42.
InitApisStatus(s, e, st) ==
    IF st.raised
    THEN [raised |-> TRUE, error |-> st.error, s |-> [s EXCEPT !.config = st.config]]
    ELSE InitApisValidated(s, e, validate_configuration(st.config, e))

\* _initialize_apis. Returns [raised, error, s]: s is the server state the call
\* leaves behind, also when it raises.
_initialize_apis(s, e) ==
    IF ~is_configured(s.config)
    THEN [raised |-> FALSE, error |-> "", s |-> s]
    ELSE InitApisStatus(s, e, get_configuration_status(s.config, e))

\* The payload {'initialized_from_env': True} pushed at startup.
EnvMarkerPayload ==
    [kind |-> "dict", items |-> [k \in {"initialized_from_env"} |-> EntryScalar]]

\* A variant of InitFromEnv that initializes only when the environment
\* configures both backends.
InitFromEnvBoth(s, e, jc, cc) ==
    IF Complete(jc.value) /\ Complete(cc.value)
    THEN _initialize_apis(
             [s EXCEPT !.config = set_config(s.config, EnvMarkerPayload).config], e).s
    ELSE s

\* _try_initialize_from_env from the two resolved configurations. Every
\* exception is caught and logged.
InitFromEnv(s, e, jc, cc) ==
    IF Complete(jc.value) \/ Complete(cc.value)
    THEN _initialize_apis(
             [s EXCEPT !.config = set_config(s.config, EnvMarkerPayload).config], e).s
    ELSE s

\* _try_initialize_from_env, on the state __init__ has built so far. The store
\* is still unset here, so the two get_*_config calls resolve a fresh dict from
\* the environment alone.
_try_initialize_from_env(s, e) ==
    InitFromEnv(s, e, get_jira_config(s.config, e), get_confluence_config(s.config, e))

\* MCPAtlassianServer.__init__ in the environment e.
ServerInit(e) ==
    _try_initialize_from_env(
        Server(ConfigNone, NoApi, NoApi, _initialize_system_commands), e)

(***************************************************************************)
(* Messages                                                                 *)
(*   message: [kind, id, method, params]                                    *)
(*     kind = "object" for a JSON object; otherwise the Python type of the  *)
(*     decoded value ("int", "str", "list", "NoneType");                    *)
(*     id, method: optional (absent key = <<>>);                            *)
(*   params: [kind, config, name, arguments, fields]                        *)
(*     kind = "absent" | "dict" | "list" | "null";                          *)
(*     config, name, arguments: the optional keys of that name;             *)
(*     fields: the other keys present with a non-null value.                *)
(***************************************************************************)
Params(kind, cfg, name, arguments, fields) ==
    [kind |-> kind, config |-> cfg, name |-> name, arguments |-> arguments,
     fields |-> fields]

EmptyParams == Params("dict", <<>>, <<>>, <<>>, {})

\* message.get('params', {})
ParamsOf(message) ==
    IF message.params.kind = "absent" THEN EmptyParams ELSE message.params

\* The arguments dict a direct command receives: params itself.
ArgsOf(params) == IF params.kind = "dict" THEN params.fields ELSE {}

\* "argument of type 'T' is not iterable": the TypeError of "x in value".
NotIterable(type) == "argument of type '" \o type \o "' is not iterable"

ErrorResult(msg) == [error |-> msg, success |-> FALSE]

\* The descriptor _handle_initialize returns.
InitializeResult ==
    [protocolVersion |-> "2024-11-05",
     capabilities |-> [tools |-> EmptyDict],
     serverInfo |-> [name |-> "mcp-atlassian-server", version |-> "1.0.0"]]

\* A handler's outcome: [s, raised, error, result, calls, by]
Outcome(s, result) ==
    [s |-> s, raised |-> FALSE, error |-> "", result |-> result, calls |-> <<>>, by |-> ""]

Raised(s, error) ==
    [s |-> s, raised |-> TRUE, error |-> error, result |-> EmptyDict, calls |-> <<>>, by |-> ""]

\* _handle_initialize once set_config has returned sc: its exception is not
\* caught here; one of _initialize_apis is caught and logged.
InitializeConfigured(s, e, sc) ==
    IF sc.raised
    THEN Raised(s, sc.error)
    ELSE Outcome(_initialize_apis([s EXCEPT !.config = sc.config], e).s, InitializeResult)

\* A variant of _handle_initialize that pushes params.get('config'), None when
\* the params carry no config.
_handle_initializePushesAbsent(s, e, params) ==
    IF params.kind # "dict"
    THEN Raised(s, NoAttr(TypeName(params.kind), "keys"))
    ELSE InitializeConfigured(s, e,
             set_config(s.config, IF params.config # <<>> THEN params.config[1]
                                  ELSE [kind |-> "null", items |-> EmptyDict]))

\* _handle_initialize
_handle_initialize(s, e, params) ==
    IF params.kind # "dict"
    THEN Raised(s, NoAttr(TypeName(params.kind), "keys"))
    ELSE IF params.config # <<>>
    THEN InitializeConfigured(s, e, set_config(s.config, params.config[1]))
    ELSE Outcome(s, InitializeResult)

SystemToolNames == <<"ping", "health", "config_status">>

JiraToolNames == <<"create_jira_issue", "search_jira_issues", "get_jira_debug_info">>

ConfluenceToolNames ==
    <<"create_confluence_page", "search_confluence_pages", "get_confluence_debug_info">>

\* _handle_tools_list: the names of the tool descriptors, in order.
_handle_tools_list(s) ==
    [tools |-> SystemToolNames
               \o (IF s.jira_api.present THEN JiraToolNames ELSE <<>>)
               \o (IF s.confluence_api.present THEN ConfluenceToolNames ELSE <<>>)]

\* json.dumps(result, indent=2): the text of the outcome.
json_dumps(result) == [json |-> result]

\* The handler outcome of the chain's result r.
Dispatched(s, r) ==
    [s |-> [s EXCEPT !.config = r.config], raised |-> r.raised, error |-> r.error,
     result |-> r.result, calls |-> r.calls, by |-> r.by]

\* self.command_handler.handle(command_name, args)
Dispatch(s, e, command_name, args, ok) ==
    Dispatched(s, handle(s.command_handler, command_name, args, s.config, e, ok))

\* The content-block envelope around the outcome r of the tool.
ToolCallResult(r) ==
    IF r.raised THEN r
    ELSE [r EXCEPT !.result =
             [content |-> <<[type |-> "text", text |-> json_dumps(r.result)]>>]]

\* _handle_tool_call
_handle_tool_call(s, e, params, ok) ==
    IF params.kind = "null"
    THEN Raised(s, NotIterable("NoneType"))
    ELSE IF params.kind # "dict" \/ params.name = <<>>
    THEN Outcome(s, ErrorResult("Missing tool name"))
    ELSE ToolCallResult(
             Dispatch(s, e, params.name[1],
                      IF params.arguments = <<>> THEN {} ELSE params.arguments[1], ok))

\* A variant of SetConfigResult that reports success whatever _initialize_apis
\* did.
SetConfigResultAlwaysOk(ia) ==
    Outcome(ia.s,
            [success |-> TRUE,
             message |-> "Configuration set and APIs initialized successfully"])

\* The result of _handle_set_config from the outcome ia of _initialize_apis.
SetConfigResult(ia) ==
    IF ia.raised
    THEN Outcome(ia.s, [success |-> FALSE, error |-> ia.error])
    ELSE Outcome(ia.s,
                 [success |-> TRUE,
                  message |-> "Configuration set and APIs initialized successfully"])

\* _handle_set_config once set_config has returned sc.
SetConfigConfigured(s, e, sc) ==
    IF sc.raised
    THEN Outcome(s, [success |-> FALSE, error |-> sc.error])
    ELSE SetConfigResult(_initialize_apis([s EXCEPT !.config = sc.config], e))

\* _handle_set_config: every exception is caught and reported in the result.
_handle_set_config(s, e, params) ==
    IF params.kind = "null"
    THEN Outcome(s, [success |-> FALSE, error |-> NotIterable("NoneType")])
    ELSE IF params.kind # "dict" \/ params.config = <<>>
    THEN Outcome(s, [success |-> FALSE, error |-> "Missing config in parameters"])
    ELSE SetConfigConfigured(s, e, set_config(s.config, params.config[1]))

\* The dispatch on the method name in process_message.
RouteMethod(s, e, method, params, ok) ==
    CASE method = "initialize" -> _handle_initialize(s, e, params)
      [] method = "tools/list" -> Outcome(s, _handle_tools_list(s))
      [] method = "tools/call" -> _handle_tool_call(s, e, params, ok)
      [] method = "set_config" -> _handle_set_config(s, e, params)
      [] OTHER -> Dispatch(s, e, method, ArgsOf(params), ok)

\* The body of process_message's try block. For a decoded value that is no
\* object, "'method' not in message" raises TypeError (int, None) or is true
\* (str, list).
Route(s, e, message, ok) ==
    IF message.kind \in {"int", "NoneType"}
    THEN Raised(s, NotIterable(message.kind))
    ELSE IF message.kind # "object" \/ message.method = <<>>
    THEN Outcome(s, ErrorResult("Missing method in message"))
    ELSE RouteMethod(s, e, message.method[1], ParamsOf(message), ok)

\* "except Exception": an exception of the body becomes {error, success: False};
\* what the body changed before raising stays changed.
Caught(r) ==
    IF r.raised
    THEN [r EXCEPT !.raised = FALSE, !.result = ErrorResult(r.error)]
    ELSE r

\* process_message. Returns [s, raised, error, result, calls, by].
process_message(s, e, message, ok) == Caught(Route(s, e, message, ok))

(***************************************************************************)
(* Inputs of the model                                                      *)
(***************************************************************************)
\* Environments: no variable set; the three Jira variables set, two under
\* their lowercase name and one under its uppercase name.
EmptyEnv == [n \in EnvNames |-> Unset]

EnvJira ==
    [n \in EnvNames |->
        CASE n = "jira_url" -> "https://env"
          [] n = "JIRA_USERNAME" -> "envuser"
          [] n = "jira_api_token" -> "envtoken"
          [] OTHER -> Unset]

Envs == {EmptyEnv, EnvJira}

\* Backend entries of a pushed configuration: complete; with a url that is a
\* number; a value that is no dict.
CompleteFields == [url |-> "https://a", username |-> "user", api_token |-> "token"]

NumberUrlFields == [url |-> NonStr, username |-> "user", api_token |-> "token"]

BackendEntries ==
    {EntryDict(CompleteFields), EntryDict(NumberUrlFields), EntryScalar}

\* The dicts with any subset of the two backend keys.
ConfigItems ==
    UNION { [keys -> BackendEntries] : keys \in SUBSET Backends }

Payloads ==
    { [kind |-> "dict", items |-> items] : items \in ConfigItems }
    \cup { [kind |-> k, items |-> EmptyDict] : k \in {"null", "str", "list"} }

IdOptions == {<<>>} \cup { <<i>> : i \in Ids }

\* Argument sets tried for a command: all required names, the first one
\* alone, and none.
ArgChoices(name) ==
    LET req == RequiredFields(name)
    IN  IF req = <<>> THEN {{}}
        ELSE {Range(req), {req[1]}, {}}

CommandNames ==
    Range(SystemCommandNames) \cup Range(JiraCommandNames)
    \cup Range(ConfluenceCommandNames) \cup {"no_such_command"}

Message(id, method, params) ==
    [kind |-> "object", id |-> id, method |-> method, params |-> params]

AbsentParams == Params("absent", <<>>, <<>>, <<>>, {})

\* Params of initialize and set_config.
ConfigParams ==
    { Params("dict", <<p>>, <<>>, <<>>, {}) : p \in Payloads }
    \cup { AbsentParams, EmptyParams,
           Params("list", <<>>, <<>>, <<>>, {}), Params("null", <<>>, <<>>, <<>>, {}) }

\* Tools called through tools/call: one or two names of each group, and a
\* name of no group.
ToolCallNames ==
    {"ping", "config_status", "create_jira_issue", "search_jira_issues",
     "delete_confluence_page", "no_such_command"}

\* Params of tools/call.
ToolCallParams ==
    UNION { { Params("dict", <<>>, <<n>>, <<a>>, {}) : a \in ArgChoices(n) } :
            n \in ToolCallNames }
    \cup { Params("dict", <<>>, <<n>>, <<>>, {}) : n \in {"ping", "search_jira_issues"} }
    \cup { AbsentParams, EmptyParams,
           Params("list", <<>>, <<>>, <<>>, {}), Params("null", <<>>, <<>>, <<>>, {}) }

\* Params of a direct command.
DirectParams(name) ==
    IF RequiredFields(name) = <<>>
    THEN { AbsentParams }
    ELSE { Params("dict", <<>>, <<>>, <<>>, a) : a \in ArgChoices(name) }

Messages ==
    { Message(id, <<m>>, p) : id \in IdOptions, m \in {"initialize", "set_config"},
                              p \in ConfigParams }
    \cup { Message(id, <<"tools/list">>, AbsentParams) : id \in IdOptions }
    \cup { Message(id, <<"tools/call">>, p) : id \in IdOptions, p \in ToolCallParams }
    \cup UNION { { Message(id, <<n>>, p) : id \in IdOptions, p \in DirectParams(n) } :
                 n \in CommandNames }
    \cup { Message(id, <<>>, AbsentParams) : id \in IdOptions }

\* Decoded values that are no JSON object.
NonObjects ==
    { [kind |-> k, id |-> <<>>, method |-> <<>>, params |-> AbsentParams] :
      k \in {"int", "str", "list", "NoneType"} }

BlankLine == [kind |-> "blank", id |-> <<>>, method |-> <<>>, params |-> AbsentParams]

MalformedLine == [kind |-> "malformed", id |-> <<>>, method |-> <<>>, params |-> AbsentParams]

NoLine == [kind |-> "none", id |-> <<>>, method |-> <<>>, params |-> AbsentParams]

(***************************************************************************)
(* The protocol loop (MCPAtlassianServer.run)                               *)
(***************************************************************************)
ParseErrorCode == -32700

NoResponse == [kind |-> "none"]

\* A variant of ResultResponse that never carries the id of the message.
ResultResponseNullId(message, result) ==
    [kind |-> "result", jsonrpc |-> "2.0", id |-> <<>>, result |-> result]

\* The response line of a processed message.
ResultResponse(message, result) ==
    [kind |-> "result", jsonrpc |-> "2.0", id |-> message.id, result |-> result]

ParseErrorResponse ==
    [kind |-> "error", jsonrpc |-> "2.0", id |-> <<>>,
     error |-> [code |-> ParseErrorCode, message |-> "Parse error"]]

CurrentServer == Server(config, jira_api, confluence_api, command_handler)

Install(s) ==
    /\ config' = s.config
    /\ jira_api' = s.jira_api
    /\ confluence_api' = s.confluence_api
    /\ command_handler' = s.command_handler

\* print(json.dumps(response), flush=True): the line is written, or the write
\* fails and run() exits with status 1.
WriteLine(resp, fails) ==
    IF fails
    THEN /\ response' = NoResponse
         /\ written' = 0
         /\ event' = "ioerror"
         /\ state' = "terminated"
         /\ exitCode' = 1
    ELSE /\ response' = resp
         /\ written' = 1
         /\ event' = "line"
         /\ UNCHANGED <<state, exitCode>>

Init ==
    /\ env \in Envs
    /\ LET s == ServerInit(env)
       IN  /\ config = s.config
           /\ jira_api = s.jira_api
           /\ confluence_api = s.confluence_api
           /\ command_handler = s.command_handler
    /\ state = "running"
    /\ exitCode = -1
    /\ event = "ready"
    /\ line = NoLine
    /\ response = NoResponse
    /\ written = 0
    /\ calls = <<>>
    /\ builder = NoBuilder
    /\ heap = <<>>

\* A line that is empty after strip(): skipped.
SkipBlank ==
    /\ state = "running"
    /\ event = "ready"
    /\ line' = BlankLine
    /\ event' = "line"
    /\ response' = NoResponse
    /\ written' = 0
    /\ calls' = <<>>
    /\ UNCHANGED <<env, builder, heap, config, jira_api, confluence_api, command_handler, state, exitCode>>

\* A variant of ParseError in which JSONDecodeError reaches the handler of
\* fatal errors: nothing is written and run() exits with status 1.
ParseErrorFatal ==
    /\ state = "running"
    /\ event = "ready"
    /\ line' = MalformedLine
    /\ calls' = <<>>
    /\ event' = "line"
    /\ response' = NoResponse
    /\ written' = 0
    /\ state' = "terminated"
    /\ exitCode' = 1
    /\ UNCHANGED <<env, builder, heap, config, jira_api, confluence_api, command_handler>>

\* json.loads raises JSONDecodeError: the parse-error response is written.
ParseError ==
    /\ state = "running"
    /\ event = "ready"
    /\ line' = MalformedLine
    /\ calls' = <<>>
    /\ \E fails \in BOOLEAN : WriteLine(ParseErrorResponse, fails)
    /\ UNCHANGED <<env, builder, heap, config, jira_api, confluence_api, command_handler>>

\* A variant of Respond that goes on to the next line with the response not
\* yet written.
RespondLater(message, r, fails) ==
    /\ line' = message
    /\ Install(r.s)
    /\ calls' = r.calls
    /\ response' = NoResponse
    /\ written' = 0
    /\ event' = "line"
    /\ UNCHANGED <<state, exitCode>>

\* The response to message is written after process_message returned r.
Respond(message, r, fails) ==
    /\ line' = message
    /\ Install(r.s)
    /\ calls' = r.calls
    /\ WriteLine(ResultResponse(message, r.result), fails)

\* The line decodes to a JSON object, one of messages: process_message, then
\* the response.
RequestFrom(messages) ==
    /\ state = "running"
    /\ event = "ready"
    /\ \E message \in messages, ok \in BOOLEAN, fails \in BOOLEAN :
          Respond(message, process_message(CurrentServer, env, message, ok), fails)
    /\ UNCHANGED <<env, builder, heap>>

Request == RequestFrom(Messages)

\* message.get('id') raises AttributeError after process_message returned r:
\* run() treats it as fatal, nothing is written, the exit status is 1.
Crash(message, r) ==
    /\ line' = message
    /\ Install(r.s)
    /\ calls' = r.calls
    /\ event' = "line"
    /\ response' = NoResponse
    /\ written' = 0
    /\ state' = "terminated"
    /\ exitCode' = 1

\* The line decodes to a value that is no object.
DecodedNonObject ==
    /\ state = "running"
    /\ event = "ready"
    /\ \E message \in NonObjects :
          Crash(message, process_message(CurrentServer, env, message, TRUE))
    /\ UNCHANGED <<env, builder, heap>>

\* KeyboardInterrupt: run() logs and returns.
Interrupt ==
    /\ state = "running"
    /\ event = "ready"
    /\ event' = "interrupt"
    /\ state' = "terminated"
    /\ exitCode' = 0
    /\ UNCHANGED <<env, builder, heap, config, jira_api, confluence_api, command_handler,
                   line, response, written, calls>>

\* Reading stdin raises: run() exits with status 1.
ReadError ==
    /\ state = "running"
    /\ event = "ready"
    /\ event' = "ioerror"
    /\ state' = "terminated"
    /\ exitCode' = 1
    /\ UNCHANGED <<env, builder, heap, config, jira_api, confluence_api, command_handler,
                   line, response, written, calls>>

\* End of input: the for loop ends and run() returns.
EndOfInput ==
    /\ state = "running"
    /\ event = "ready"
    /\ event' = "eof"
    /\ state' = "terminated"
    /\ exitCode' = 0
    /\ UNCHANGED <<env, builder, heap, config, jira_api, confluence_api, command_handler,
                   line, response, written, calls>>

\* The iteration is over: the loop is back at "for line in sys.stdin".
NextIteration ==
    /\ state = "running"
    /\ event = "line"
    /\ event' = "ready"
    /\ line' = NoLine
    /\ response' = NoResponse
    /\ written' = 0
    /\ calls' = <<>>
    /\ UNCHANGED <<env, builder, heap, config, jira_api, confluence_api, command_handler, state, exitCode>>

Next ==
    \/ NextIteration
    \/ SkipBlank
    \/ ParseError
    \/ Request
    \/ DecodedNonObject
    \/ Interrupt
    \/ ReadError
    \/ EndOfInput

Spec == Init /\ [][Next]_vars

(***************************************************************************)
(* The chain of handlers over arbitrary command dicts                       *)
(* JiraCommandHandler and ConfluenceCommandHandler take any dict. SpecChain *)
(* runs the loop on a server whose chain was built by BuildChain from two    *)
(* dicts holding any of ChainNames, to check the resolution order of handle  *)
(* where a name is held by more than one handler.                            *)
(***************************************************************************)
ChainNames == {"ping", "search_jira_issues", "search_confluence_pages"}

ChainJiraApi == JiraAPI("https://a", "user", "token").api

ChainConfluenceApi == ConfluenceAPI("https://b", "user", "token").api

Chains ==
    { BuildChain([n \in jn |-> ChainJiraApi], [n \in cn |-> ChainConfluenceApi]) :
      jn \in SUBSET ChainNames, cn \in SUBSET ChainNames }

ChainMessages ==
    { Message(id, <<n>>, AbsentParams) :
      id \in IdOptions, n \in ChainNames \cup {"no_such_command"} }

ChainInit ==
    /\ env = EmptyEnv
    /\ config = ConfigNone
    /\ jira_api = ChainJiraApi
    /\ confluence_api = ChainConfluenceApi
    /\ command_handler \in Chains
    /\ state = "running"
    /\ exitCode = -1
    /\ event = "ready"
    /\ line = NoLine
    /\ response = NoResponse
    /\ written = 0
    /\ calls = <<>>
    /\ builder = NoBuilder
    /\ heap = <<>>

\* The chain is built again from two other dicts.
ChainRebuild ==
    /\ state = "running"
    /\ event = "ready"
    /\ command_handler' \in Chains
    /\ UNCHANGED <<env, builder, heap, config, jira_api, confluence_api, state, exitCode, event,
                   line, response, written, calls>>

ChainRequest == RequestFrom(ChainMessages)

ChainNext ==
    \/ NextIteration
    \/ ChainRequest
    \/ ChainRebuild

SpecChain == ChainInit /\ [][ChainNext]_vars

(***************************************************************************)
(* The ConfigManager operated directly                                      *)
(* SpecConfig calls the methods of the ConfigManager of a started server,   *)
(* as src/test_config.py does. After a call, line is the call made:         *)
(* [kind "call", op, payload, key, backend, before (the store before the    *)
(* call)], response is what it returned or raised, and config is the store  *)
(* after it.                                                                *)
(***************************************************************************)
\* Environments: none; Jira complete (mixed case names); jira_url under both
\* names and nothing else; Confluence complete under uppercase names with
\* JIRA_AUTH_TYPE set.
EnvJiraUrlTwice ==
    [n \in EnvNames |->
        CASE n = "jira_url" -> "https://low"
          [] n = "JIRA_URL" -> "https://up"
          [] OTHER -> Unset]

EnvConfluenceUpper ==
    [n \in EnvNames |->
        CASE n = "CONFLUENCE_URL" -> "https://c"
          [] n = "CONFLUENCE_USERNAME" -> "cuser"
          [] n = "CONFLUENCE_API_TOKEN" -> "ctoken"
          [] n = "JIRA_AUTH_TYPE" -> "bearer"
          [] OTHER -> Unset]

\* Jira complete, with the bearer authentication type.
EnvJiraBearer ==
    [n \in EnvNames |->
        CASE n = "JIRA_URL" -> "https://env"
          [] n = "JIRA_USERNAME" -> "envuser"
          [] n = "JIRA_API_TOKEN" -> "envtoken"
          [] n = "jira_auth_type" -> "bearer"
          [] OTHER -> Unset]

ConfigEnvs == {EmptyEnv, EnvJira, EnvJiraUrlTwice, EnvConfluenceUpper, EnvJiraBearer}

\* Jira entries pushed: complete; the url alone; all but the api_token; an
\* empty url; an empty auth_type alone; complete with auth_type; empty; no dict.
JiraEntries ==
    {EntryDict(CompleteFields),
     EntryDict([url |-> "https://a"]),
     EntryDict([url |-> "https://a", username |-> "user"]),
     EntryDict([url |-> "", username |-> "user", api_token |-> "token"]),
     EntryDict([auth_type |-> ""]),
     EntryDict([url |-> "https://a", username |-> "user", api_token |-> "token",
                auth_type |-> "bearer"]),
     EntryDict(EmptyDict),
     EntryScalar}

ConfluenceEntries ==
    {EntryDict(CompleteFields), EntryDict([username |-> "user"]), EntryScalar}

ConfigPayloadItems ==
    UNION { { f \in [keys -> JiraEntries \cup ConfluenceEntries] :
                /\ "jira" \in keys => f["jira"] \in JiraEntries
                /\ "confluence" \in keys => f["confluence"] \in ConfluenceEntries } :
            keys \in SUBSET Backends }

\* A top-level entry that is the string s.
EntryText(s) == [kind |-> "scalar", items |-> EmptyDict, text |-> s]

\* The payloads pushed: every choice of backend entries; a complete Jira entry
\* beside a top-level token; null, a string, a list.
ConfigPayloads ==
    { [kind |-> "dict", items |-> items] : items \in ConfigPayloadItems }
    \cup { ConfigDict([jira |-> EntryDict(CompleteFields), token |-> EntryText("s3cret")]) }
    \cup { [kind |-> k, items |-> EmptyDict] : k \in {"null", "str", "list"} }

ConfigKeys ==
    {"jira", "jira.url", "jira.username", "jira.url.scheme", "confluence.username",
     "initialized_from_env", "initialized_from_env.x", "nonexistent.key", "logging"}

Default == "<default>"

Call(op, payload, key, backend) ==
    [kind |-> "call", op |-> op, payload |-> payload, key |-> key,
     backend |-> backend, before |-> config]

Return(value) == [kind |-> "return", value |-> value, error |-> ""]

Raise(error) == [kind |-> "raise", value |-> <<>>, error |-> error]

\* What a call that returned r = [raised, error, value] hands back.
Returned(r) == IF r.raised THEN Raise(r.error) ELSE Return(r.value)

ConfigInit ==
    /\ env \in ConfigEnvs
    /\ config = ServerInit(env).config
    /\ jira_api = ServerInit(env).jira_api
    /\ confluence_api = ServerInit(env).confluence_api
    /\ command_handler = ServerInit(env).command_handler
    /\ state = "running"
    /\ exitCode = -1
    /\ event = "ready"
    /\ line = NoLine
    /\ response = NoResponse
    /\ written = 0
    /\ calls = <<>>
    /\ builder = NoBuilder
    /\ heap = <<>>

\* The call made leaves the store cfg and hands back resp.
ConfigCalled(call, cfg, resp) ==
    /\ state = "running"
    /\ event = "ready"
    /\ line' = call
    /\ config' = cfg
    /\ response' = resp
    /\ event' = "line"
    /\ UNCHANGED <<env, builder, heap, jira_api, confluence_api, command_handler, state, exitCode,
                   written, calls>>

\* config.set_config(payload)
ConfigSet ==
    \E payload \in ConfigPayloads :
       ConfigCalled(Call("set_config", payload, "", ""),
                    set_config(config, payload).config,
                    IF set_config(config, payload).raised
                    THEN Raise(set_config(config, payload).error)
                    ELSE Return(<<>>))

\* config.get(key, Default)
ConfigGet ==
    \E key \in ConfigKeys :
       ConfigCalled(Call("get", ConfigNone, key, ""), config,
                    Return(get(config, key, Default)))

\* The store and the answer after get_jira_config / get_confluence_config
\* returned r.
ConfigResolved(backend, r) ==
    ConfigCalled(Call("get_backend_config", ConfigNone, "", backend), r.config,
                 Returned(r))

\* config.get_jira_config() / config.get_confluence_config()
ConfigResolve ==
    \E backend \in Backends :
       ConfigResolved(backend, get_backend_config(config, env, backend))

\* The store and the answer after validate_configuration returned r.
ConfigValidated(r) ==
    ConfigCalled(Call("validate_configuration", ConfigNone, "", ""), r.config,
                 Returned(r))

\* config.validate_configuration()
ConfigValidate == ConfigValidated(validate_configuration(config, env))

\* config.is_configured()
ConfigIsConfigured ==
    ConfigCalled(Call("is_configured", ConfigNone, "", ""), config,
                 Return(is_configured(config)))

\* config.get_all_config()
ConfigSnapshot ==
    ConfigCalled(Call("get_all_config", ConfigNone, "", ""), config,
                 Returned(get_all_config(config)))

ConfigNext ==
    \/ NextIteration
    \/ ConfigSnapshot
    \/ ConfigSet
    \/ ConfigGet
    \/ ConfigResolve
    \/ ConfigValidate
    \/ ConfigIsConfigured

SpecConfig == ConfigInit /\ [][ConfigNext]_vars

(***************************************************************************)
(* The request builders (utils/builders.py)                                 *)
(* SpecBuilder calls the methods of one builder. Python dicts and lists are *)
(* objects with identity: heap[n] is the content of object n. A dict maps   *)
(* its keys to Str(text) or to Ref(n), the object n; a list is a sequence   *)
(* of texts. calls holds the calls made on the builder so far, line the     *)
(* call just made (with the calls made before it), response what the last  *)
(* build() returned: the identity of the payload (value) and its content at *)
(* that moment (payload).                                                   *)
(***************************************************************************)
MaxCalls == 5

BuilderClasses == {"JiraIssueBuilder", "ConfluencePageBuilder", "JiraFilterBuilder"}

BuilderTexts == {"A", "B"}

Str(text) == [str |-> text]

Ref(n) == [ref |-> n]

\* The content of dict n, with the content of every object it refers to in
\* place of the reference.
Deref(h, n) ==
    [k \in DOMAIN h[n] |-> IF DOMAIN h[n][k] = {"ref"} THEN h[h[n][k].ref] ELSE h[n][k]]

\* reset: self._request = {} (a new dict); for JiraFilterBuilder also
\* self._jql_parts = [].
reset(b, h) ==
    [builder |-> [b EXCEPT !._request = Len(h) + 1, !._jql_parts = <<>>],
     heap |-> Append(h, EmptyDict)]

\* A variant of build that leaves the builder as it is.
buildNoReset(b, h) ==
    [result |-> Len(h) + 1, builder |-> b, heap |-> Append(h, h[b._request])]

\* build: result = self._request.copy() (a new dict holding the same values
\* and references); self.reset(); return result.
build(b, h) ==
    [result |-> Len(h) + 1,
     builder |-> reset(b, Append(h, h[b._request])).builder,
     heap |-> reset(b, Append(h, h[b._request])).heap]

\* JiraFilterBuilder.build: the jql field is set when there are parts, then
\* as build.
JiraFilterBuilder_build(b, h) ==
    build(b, IF b._jql_parts # <<>>
             THEN [h EXCEPT ![b._request] = DictPut(@, "jql", Str(Join(b._jql_parts, " AND ")))]
             ELSE h)

\* self._request[key] = value
set_item(b, h, key, value) == [h EXCEPT ![b._request] = DictPut(@, key, Str(value))]

\* JiraIssueBuilder.set_*: if 'fields' not in self._request:
\* self._request['fields'] = {}; self._request['fields'][key] = value
set_field(b, h, key, value) ==
    IF "fields" \in DOMAIN h[b._request]
    THEN [h EXCEPT ![h[b._request]["fields"].ref] = DictPut(@, key, Str(value))]
    ELSE Append([h EXCEPT ![b._request] = DictPut(@, "fields", Ref(Len(h) + 1))],
                [k \in {key} |-> Str(value)])

\* ConfluencePageBuilder.set_parent: if 'ancestors' not in self._request:
\* self._request['ancestors'] = []; self._request['ancestors'].append(id)
set_parent(b, h, parent_id) ==
    IF "ancestors" \in DOMAIN h[b._request]
    THEN [h EXCEPT ![h[b._request]["ancestors"].ref] = Append(@, parent_id)]
    ELSE Append([h EXCEPT ![b._request] = DictPut(@, "ancestors", Ref(Len(h) + 1))],
                <<parent_id>>)

\* A variant of add_clause that keeps a clause the builder already holds once.
add_clauseOnce(b, field, value) ==
    IF field \o " = \"" \o value \o "\"" \in Range(b._jql_parts)
    THEN b
    ELSE [b EXCEPT !._jql_parts = Append(@, field \o " = \"" \o value \o "\"")]

\* JiraFilterBuilder.add_*: self._jql_parts.append(f'<field> = "{value}"')
add_clause(b, field, value) ==
    [b EXCEPT !._jql_parts = Append(@, field \o " = \"" \o value \o "\"")]

BuilderInit ==
    /\ env = EmptyEnv
    /\ config = ConfigNone
    /\ jira_api = NoApi
    /\ confluence_api = NoApi
    /\ command_handler = ServerInit(EmptyEnv).command_handler
    /\ state = "running"
    /\ exitCode = -1
    /\ event = "ready"
    /\ line = NoLine
    /\ response = NoResponse
    /\ written = 0
    /\ calls = <<>>
    /\ \E class \in BuilderClasses :
          builder = [class |-> class, _request |-> 1, _jql_parts |-> <<>>]
    /\ heap = <<EmptyDict>>

\* The call op(args) leaves the builder b and the heap h, and resp as the
\* last payload returned.
BuilderCalled(op, args, b, h, resp) ==
    /\ Len(calls) < MaxCalls
    /\ line' = [kind |-> "call", op |-> op, args |-> args, log |-> calls]
    /\ builder' = b
    /\ heap' = h
    /\ calls' = Append(calls, [op |-> op, args |-> args])
    /\ response' = resp
    /\ UNCHANGED <<env, config, jira_api, confluence_api, command_handler, state,
                   exitCode, event, written>>

\* A setter was called.
Setter(op, args, b, h) == BuilderCalled(op, args, b, h, response)

\* build() returned r.
Built(r) ==
    BuilderCalled("build", <<>>, r.builder, r.heap,
                  [kind |-> "return", error |-> "", value |-> r.result,
                   payload |-> Deref(r.heap, r.result)])

\* JiraIssueBuilder.set_summary(text) / set_epic_link(text)
IssueSet ==
    /\ builder.class = "JiraIssueBuilder"
    /\ \E op \in {"set_summary", "set_epic_link"}, text \in BuilderTexts :
          Setter(op, <<text>>, builder,
                 set_field(builder, heap,
                           IF op = "set_summary" THEN "summary" ELSE "customfield_10014",
                           text))

\* ConfluencePageBuilder.set_title(text)
PageSetTitle ==
    /\ builder.class = "ConfluencePageBuilder"
    /\ \E text \in BuilderTexts :
          Setter("set_title", <<text>>, builder, set_item(builder, heap, "title", text))

\* ConfluencePageBuilder.set_parent(text)
PageSetParent ==
    /\ builder.class = "ConfluencePageBuilder"
    /\ \E text \in BuilderTexts :
          Setter("set_parent", <<text>>, builder, set_parent(builder, heap, text))

\* JiraFilterBuilder.add_project(text) / add_status(text)
FilterAdd ==
    /\ builder.class = "JiraFilterBuilder"
    /\ \E op \in {"add_project", "add_status"}, text \in BuilderTexts :
          Setter(op, <<text>>,
                 add_clause(builder, IF op = "add_project" THEN "project" ELSE "status", text),
                 heap)

\* JiraFilterBuilder.set_max_results(n) / set_start_at(n)
FilterSetPage ==
    /\ builder.class = "JiraFilterBuilder"
    /\ \E op \in {"set_max_results", "set_start_at"} :
          Setter(op, <<"10">>, builder,
                 set_item(builder, heap,
                          IF op = "set_max_results" THEN "maxResults" ELSE "startAt", "10"))

\* RequestBuilder.build()
Build ==
    /\ builder.class \in {"JiraIssueBuilder", "ConfluencePageBuilder"}
    /\ Built(build(builder, heap))

\* JiraFilterBuilder.build()
FilterBuild ==
    /\ builder.class = "JiraFilterBuilder"
    /\ Built(JiraFilterBuilder_build(builder, heap))

BuilderNext ==
    \/ IssueSet
    \/ PageSetTitle
    \/ PageSetParent
    \/ FilterAdd
    \/ FilterSetPage
    \/ Build
    \/ FilterBuild

SpecBuilder == BuilderInit /\ [][BuilderNext]_vars

(***************************************************************************)
(* The backend adapters and the commands that use them                      *)
(* SpecCommands executes commands on constructed adapters. line holds the   *)
(* command, its arguments (a dict of texts) and the outcome of each HTTP    *)
(* request in the order the requests are made; calls holds what was         *)
(* invoked: the adapter method with what it received, then the HTTP         *)
(* requests it sent; response holds what execute() returned.                *)
(***************************************************************************)
\* The outcome of one HTTP request: "ok" is a 2xx response with the body the
\* caller reads, "bad" a 2xx response whose JSON body lacks the entries the
\* caller reads, "invalid" a 2xx response whose body is no JSON, "fail" a
\* RequestException out of _make_request. project and version are what the
\* body of a fetched issue or page carries.
Plain(status) == [status |-> status, project |-> "", version |-> 0]

ParentProjects == {"PRJ", "OPS"}

PageVersions == {1, 7}

IssueFetches ==
    { [Plain("ok") EXCEPT !.project = p] : p \in ParentProjects }
        \cup {Plain("bad"), Plain("invalid"), Plain("fail")}

PageFetches ==
    { [Plain("ok") EXCEPT !.version = v] : v \in PageVersions }
        \cup {Plain("bad"), Plain("invalid"), Plain("fail")}

Writes == {Plain("ok"), Plain("invalid"), Plain("fail")}

SubCalls == {Plain("ok"), Plain("bad"), Plain("invalid"), Plain("fail")}

HttpRequest(verb, endpoint, data) ==
    [layer |-> "http", verb |-> verb, endpoint |-> endpoint, data |-> data]

Invoked(method, id, data) ==
    [layer |-> "adapter", method |-> method, id |-> id, data |-> data]

Gives(value, sent) == [raised |-> FALSE, error |-> "", value |-> value, calls |-> sent]

Fails(error, sent) == [raised |-> TRUE, error |-> error, value |-> EmptyDict, calls |-> sent]

KeyError(key) == "'" \o key \o "'"

\* str(e) of the ValueError of response.json().
JsonError == "Expecting value"

\* APIStrategy._make_request: the request is sent; a failure is re-raised.
_make_request(verb, endpoint, data, o) ==
    IF o.status = "fail"
    THEN Fails(BackendError, <<HttpRequest(verb, endpoint, data)>>)
    ELSE Gives(o, <<HttpRequest(verb, endpoint, data)>>)

JiraApiBase == "/rest/api/3"

ConfluenceApiBase == "/rest/api"

\* response.json() of a fetched issue.
IssueBody(o) ==
    IF o.status = "ok" THEN [fields |-> [project |-> [key |-> o.project]]] ELSE EmptyDict

\* response.json() of a fetched page.
PageBody(o) ==
    IF o.status = "ok"
    THEN [version |-> [number |-> o.version], title |-> "Current title",
          space |-> [key |-> "SPACE"]]
    ELSE [title |-> "Current title"]

\* response.json() of a write.
WrittenBody(o) ==
    IF o.status = "ok"
    THEN [key |-> "PRJ-2", id |-> "10001", title |-> "Written title"]
    ELSE EmptyDict

\* return response.json() after the request returned r.
ReadJson(r, body) ==
    IF r.raised THEN r
    ELSE IF r.value.status = "invalid" THEN Fails(JsonError, r.calls)
    ELSE Gives(body, r.calls)

\* return value after the request returned r, its body unread.
Answer(r, value) == IF r.raised THEN r ELSE Gives(value, r.calls)

\* JiraAPI.get
jira_get(issue_key, o) ==
    ReadJson(_make_request("GET", JiraApiBase \o "/issue/" \o issue_key, EmptyDict, o),
             IssueBody(o))

\* JiraIssueBuilder: the entry of 'fields' a setter writes for an argument.
FieldName(k) == IF k = "epic" THEN "customfield_10014" ELSE k

FieldValue(k, v) ==
    IF k \in {"project", "parent"} THEN [key |-> v]
    ELSE IF k \in {"issuetype", "assignee"} THEN [name |-> v]
    ELSE IF k = "description" THEN [type |-> "doc", text |-> v]
    ELSE [text |-> v]

\* The request the builder returns for the arguments in keys that data holds.
IssueRequest(data, keys) ==
    IF DOMAIN data \cap keys = {}
    THEN EmptyDict
    ELSE [fields |-> [f \in { FieldName(k) : k \in DOMAIN data \cap keys } |->
                        LET k == CHOOSE k \in DOMAIN data \cap keys : FieldName(k) = f
                        IN  FieldValue(k, data[k])]]

CreateKeys ==
    {"project", "summary", "issuetype", "description", "assignee", "labels", "epic", "parent"}

UpdateKeys == {"summary", "description", "assignee", "labels", "issuetype"}

\* JiraAPI.create, with its validate_required_fields decorator.
jira_create(data, o) ==
    IF MissingFields(DOMAIN data, <<"project", "summary", "issuetype">>) # <<>>
    THEN Fails("Missing required fields: "
                 \o Join(MissingFields(DOMAIN data, <<"project", "summary", "issuetype">>), ", "),
               <<>>)
    ELSE ReadJson(_make_request("POST", JiraApiBase \o "/issue",
                                IssueRequest(data, CreateKeys), o),
                  WrittenBody(o))

\* JiraAPI.update
jira_update(issue_key, data, o) ==
    Answer(_make_request("PUT", JiraApiBase \o "/issue/" \o issue_key,
                         IssueRequest(data, UpdateKeys), o),
           [success |-> TRUE, issue_key |-> issue_key])

\* A variant of SubtaskData in which the caller's arguments are applied last.
SubtaskDataCallerLast(parent_key, data, project_key) ==
    [k \in DOMAIN data \cup {"project", "parent", "issuetype"} |->
        IF k \in DOMAIN data THEN data[k]
        ELSE IF k = "project" THEN project_key
        ELSE IF k = "parent" THEN parent_key
        ELSE "Sub-task"]

\* JiraAPI.create_subtask: the copy of data with the three fields assigned.
SubtaskData(parent_key, data, project_key) ==
    [k \in DOMAIN data \cup {"project", "parent", "issuetype"} |->
        IF k = "project" THEN project_key
        ELSE IF k = "parent" THEN parent_key
        ELSE IF k = "issuetype" THEN "Sub-task"
        ELSE data[k]]

\* JiraAPI.create_subtask once get(parent_key) has returned g.
SubtaskOfParent(parent_key, data, g, o) ==
    IF g.raised
    THEN g
    ELSE IF "fields" \notin DOMAIN g.value
    THEN Fails(KeyError("fields"), g.calls)
    ELSE [jira_create(SubtaskData(parent_key, data, g.value.fields.project.key), o)
            EXCEPT !.calls = g.calls \o @]

\* JiraAPI.create_subtask
create_subtask(parent_key, data, os) ==
    SubtaskOfParent(parent_key, data, jira_get(parent_key, os[1]), os[2])

\* ConfluenceAPI.get: every failure is caught and an empty dict returned.
confluence_get(page_id, o) ==
    Gives(IF o.status \in {"fail", "invalid"} THEN EmptyDict ELSE PageBody(o),
          <<HttpRequest("GET",
                    ConfluenceApiBase \o "/content/" \o page_id
                        \o "?expand=body.storage,space,ancestors",
                    EmptyDict)>>)

\* A variant of PageUpdateRequest that sends the fetched version number.
PageUpdateRequestSameVersion(current_page, data) ==
    [k \in {"type", "version", "title", "space"}
            \cup (IF "content" \in DOMAIN data THEN {"body"} ELSE {}) |->
        IF k = "type" THEN [text |-> "page"]
        ELSE IF k = "version" THEN [number |-> current_page.version.number]
        ELSE IF k = "title"
        THEN [text |-> IF "title" \in DOMAIN data THEN data.title ELSE current_page.title]
        ELSE IF k = "space"
        THEN [key |-> IF "space" \in DOMAIN data THEN data.space ELSE current_page.space.key]
        ELSE [storage |-> [value |-> data.content, representation |-> "storage"]]]

\* ConfluenceAPI.update: the request built from the current page and data.
PageUpdateRequest(current_page, data) ==
    [k \in {"type", "version", "title", "space"}
            \cup (IF "content" \in DOMAIN data THEN {"body"} ELSE {}) |->
        IF k = "type" THEN [text |-> "page"]
        ELSE IF k = "version" THEN [number |-> current_page.version.number + 1]
        ELSE IF k = "title"
        THEN [text |-> IF "title" \in DOMAIN data THEN data.title ELSE current_page.title]
        ELSE IF k = "space"
        THEN [key |-> IF "space" \in DOMAIN data THEN data.space ELSE current_page.space.key]
        ELSE [storage |-> [value |-> data.content, representation |-> "storage"]]]

\* ConfluenceAPI.update once get(page_id) has returned g.
UpdateOfCurrent(page_id, data, g, o) ==
    IF "version" \notin DOMAIN g.value
    THEN Fails(KeyError("version"), g.calls)
    ELSE [ReadJson(_make_request("PUT", ConfluenceApiBase \o "/content/" \o page_id,
                                 PageUpdateRequest(g.value, data), o),
                   WrittenBody(o))
            EXCEPT !.calls = g.calls \o @]

\* ConfluenceAPI.update
confluence_update(page_id, data, os) ==
    UpdateOfCurrent(page_id, data, confluence_get(page_id, os[1]), os[2])

\* ConfluenceAPI.search_by_parent: the query string of the request.
ChildQuery(filters) ==
    "expand=space,ancestors&type=page&limit=" \o DictGet(filters, "limit", "50")
        \o (IF "start" \in DOMAIN filters THEN "&start=" \o filters.start ELSE "")

\* ConfluenceAPI.search_by_parent: a body that is no JSON, or no object with
\* results, gives the empty list.
search_by_parent(parent_id, filters, o) ==
    Answer(_make_request("GET", ConfluenceApiBase \o "/content/" \o parent_id
                                    \o "/child/page?" \o ChildQuery(filters),
                         EmptyDict, o),
           IF o.status = "ok" THEN <<"child page">> ELSE <<>>)

\* A variant of SubCall in which a failing sub-call discards what was collected.
SubCallDiscarding(debug_info, field, error_field, o, raising) ==
    IF o.status \in raising
    THEN [k \in {error_field} |-> "error"]
    ELSE DictPut(debug_info, field, IF o.status = "ok" THEN "data" ELSE "empty")

\* One try block of get_debug_info: the data field is assigned when the
\* request and the reading of its body succeed, the error field otherwise.
\* raising: the outcomes of the request on which the block raises.
SubCall(debug_info, field, error_field, o, raising) ==
    IF o.status \in raising
    THEN DictPut(debug_info, error_field, "error")
    ELSE DictPut(debug_info, field, IF o.status = "ok" THEN "data" ELSE "empty")

\* JiraAPI.get_debug_info: the entries of a body of another shape cannot be
\* read (projects, issue types); the body of the user is taken as it is.
jira_get_debug_info(os) ==
    Gives(SubCall(SubCall(SubCall(EmptyDict, "projects", "projects_error", os[1],
                                  {"fail", "invalid", "bad"}),
                          "issue_types", "issue_types_error", os[2],
                          {"fail", "invalid", "bad"}),
                  "current_user", "user_error", os[3], {"fail", "invalid"}),
          <<HttpRequest("GET", JiraApiBase \o "/project", EmptyDict),
            HttpRequest("GET", JiraApiBase \o "/issuetype", EmptyDict),
            HttpRequest("GET", JiraApiBase \o "/myself", EmptyDict)>>)

\* ConfluenceAPI.get_debug_info: a body of another shape reads as empty.
confluence_get_debug_info(os) ==
    Gives(SubCall(SubCall(EmptyDict, "spaces", "spaces_error", os[1], {"fail", "invalid"}),
                  "current_user", "user_error", os[2], {"fail", "invalid"}),
          <<HttpRequest("GET", ConfluenceApiBase \o "/space?limit=100", EmptyDict),
            HttpRequest("GET", ConfluenceApiBase \o "/user/current", EmptyDict)>>)

\* The argument a command takes out of args as the resource identifier.
IdArg(name) ==
    CASE name = "update_jira_issue" -> "issue_key"
      [] name = "create_jira_subtask" -> "parent_key"
      [] name = "update_confluence_page" -> "page_id"
      [] name = "search_confluence_pages_by_parent" -> "parent_id"
      [] OTHER -> ""

\* A variant of Pop that reads the key and leaves it in the dict.
PopKept(args, key) == args

\* args after args.pop(key)
Pop(args, key) == [k \in DOMAIN args \ {key} |-> args[k]]

\* result.get(key)
Opt(d, key) == IF key \in DOMAIN d THEN Some(d[key]) ELSE NoneOpt

\* The adapter call of each command.
Adapter(name, id, data, os) ==
    CASE name = "update_jira_issue" -> jira_update(id, data, os[1])
      [] name = "create_jira_subtask" -> create_subtask(id, data, os)
      [] name = "update_confluence_page" -> confluence_update(id, data, os)
      [] name = "search_confluence_pages_by_parent" -> search_by_parent(id, data, os[1])
      [] name = "get_jira_debug_info" -> jira_get_debug_info(os)
      [] name = "get_confluence_debug_info" -> confluence_get_debug_info(os)

\* The dict a command returns when its adapter call returned value.
Succeeded(name, id, value) ==
    CASE name = "update_jira_issue" ->
            [success |-> TRUE, issue_key |-> id,
             message |-> "Issue " \o id \o " updated successfully"]
      [] name = "create_jira_subtask" ->
            [success |-> TRUE, issue_key |-> Opt(value, "key"), issue_id |-> Opt(value, "id"),
             parent_key |-> id,
             message |-> "Subtask " \o DictGet(value, "key", "None")
                            \o " created for " \o id]
      [] name = "update_confluence_page" ->
            [success |-> TRUE, page_id |-> Opt(value, "id"),
             page_title |-> Opt(value, "title"),
             message |-> "Page " \o id \o " updated successfully"]
      [] name = "search_confluence_pages_by_parent" ->
            [success |-> TRUE, pages |-> value, count |-> Len(value), parent_id |-> id,
             message |-> IF value = <<>> THEN "Found 0 child pages"
                         ELSE "Found 1 child pages"]
      [] OTHER ->
            [success |-> TRUE, debug_info |-> value,
             message |-> "Debug information retrieved successfully"]

\* The try block of execute once the adapter call, made with id and data,
\* returned r.
Tried(name, id, data, r) ==
    [raised |-> FALSE, error |-> "",
     result |-> IF r.raised THEN [success |-> FALSE, error |-> r.error]
                ELSE Succeeded(name, id, r.value),
     calls |-> <<Invoked(AdapterMethod(name), id, data)>> \o r.calls]

\* execute of a command with an identifying argument.
execute_with_id(name, args, os) ==
    IF MissingFields(DOMAIN args, RequiredFields(name)) # <<>>
    THEN [raised |-> TRUE,
          error |-> "Missing required fields: "
                        \o Join(MissingFields(DOMAIN args, RequiredFields(name)), ", "),
          result |-> EmptyDict, calls |-> <<>>]
    ELSE Tried(name, args[IdArg(name)], Pop(args, IdArg(name)),
               Adapter(name, args[IdArg(name)], Pop(args, IdArg(name)), os))

\* execute of a debug-info command: the adapter is called without arguments.
execute_debug_info(name, args, os) ==
    Tried(name, "", EmptyDict, Adapter(name, "", EmptyDict, os))

\* The server after a complete configuration of both backends was pushed.
CommandsServer ==
    _initialize_apis(
        [ServerInit(EmptyEnv) EXCEPT
            !.config = ConfigDict([jira |-> EntryDict(CompleteFields),
                                   confluence |-> EntryDict(CompleteFields)])],
        EmptyEnv).s

CommandsInit ==
    /\ env = EmptyEnv
    /\ config = CommandsServer.config
    /\ jira_api = CommandsServer.jira_api
    /\ confluence_api = CommandsServer.confluence_api
    /\ command_handler = CommandsServer.command_handler
    /\ state = "running"
    /\ exitCode = -1
    /\ event = "ready"
    /\ line = NoLine
    /\ response = NoResponse
    /\ written = 0
    /\ calls = <<>>
    /\ builder = NoBuilder
    /\ heap = <<>>

\* command.execute(args) returned or raised x, the HTTP requests ending as os.
CommandCalled(name, args, os, x) ==
    /\ state = "running"
    /\ event = "ready"
    /\ line' = [kind |-> "call", op |-> name, args |-> args, http |-> os]
    /\ calls' = x.calls
    /\ response' = IF x.raised THEN Raise(x.error) ELSE Return(x.result)
    /\ event' = "line"
    /\ UNCHANGED <<env, builder, heap, config, jira_api, confluence_api, command_handler,
                   state, exitCode, written>>

IssueKeys == {"PRJ-1", "OPS-7"}

PageIds == {"100", "200"}

\* Arguments of update_jira_issue: any of the fields, with or without the key.
UpdateIssueArgs ==
    UNION { [keys -> {"text"}] : keys \in SUBSET {"summary", "labels", "priority"} }

WithId(argsets, key, ids) ==
    argsets \cup { DictPut(a, key, id) : a \in argsets, id \in ids }

SubtaskArgs ==
    { [summary |-> "Subtask"],
      [summary |-> "Subtask", project |-> "MINE", issuetype |-> "Bug"],
      [summary |-> "Subtask", parent |-> "MINE-1", description |-> "text"],
      [project |-> "MINE"] }

UpdatePageArgs ==
    { EmptyDict, [title |-> "New title"], [content |-> "text", space |-> "MINE"],
      [version |-> "9"] }

ChildSearchArgs ==
    { EmptyDict, [limit |-> "5"], [limit |-> "5", start |-> "10"], [title |-> "x"] }

\* UpdateJiraIssueCommand.execute
ExecUpdateIssue ==
    \E args \in WithId(UpdateIssueArgs, "issue_key", IssueKeys), o \in Writes :
        CommandCalled("update_jira_issue", args, <<o>>,
                      execute_with_id("update_jira_issue", args, <<o>>))

\* CreateJiraSubtaskCommand.execute
ExecCreateSubtask ==
    \E args \in WithId(SubtaskArgs, "parent_key", IssueKeys),
       o1 \in IssueFetches, o2 \in Writes :
        CommandCalled("create_jira_subtask", args, <<o1, o2>>,
                      execute_with_id("create_jira_subtask", args, <<o1, o2>>))

\* UpdateConfluencePageCommand.execute
ExecUpdatePage ==
    \E args \in WithId(UpdatePageArgs, "page_id", PageIds),
       o1 \in PageFetches, o2 \in Writes :
        CommandCalled("update_confluence_page", args, <<o1, o2>>,
                      execute_with_id("update_confluence_page", args, <<o1, o2>>))

\* SearchConfluencePagesByParentCommand.execute
ExecSearchByParent ==
    \E args \in WithId(ChildSearchArgs, "parent_id", PageIds), o \in SubCalls :
        CommandCalled("search_confluence_pages_by_parent", args, <<o>>,
                      execute_with_id("search_confluence_pages_by_parent", args, <<o>>))

\* GetJiraDebugInfoCommand.execute
ExecJiraDebugInfo ==
    \E o1 \in SubCalls, o2 \in SubCalls, o3 \in SubCalls :
        CommandCalled("get_jira_debug_info", EmptyDict, <<o1, o2, o3>>,
                      execute_debug_info("get_jira_debug_info", EmptyDict, <<o1, o2, o3>>))

\* GetConfluenceDebugInfoCommand.execute
ExecConfluenceDebugInfo ==
    \E o1 \in SubCalls, o2 \in SubCalls :
        CommandCalled("get_confluence_debug_info", EmptyDict, <<o1, o2>>,
                      execute_debug_info("get_confluence_debug_info", EmptyDict, <<o1, o2>>))

\* Outcomes of a DELETE request: "ok" is a response with status 204, "bad" a
\* response with another 2xx status, "fail" a RequestException.
Deletions == {Plain("ok"), Plain("bad"), Plain("fail")}

\* JiraAPI.delete and ConfluenceAPI.delete: whether the status is 204.
delete(api_base, id, o) ==
    Answer(_make_request("DELETE", api_base \o id, EmptyDict, o), o.status = "ok")

\* A variant of Deleted that reports success whatever delete returned.
DeletedAlways(what, id, success) ==
    [success |-> TRUE, message |-> what \o " " \o id \o " deleted successfully"]

\* The dict a delete command returns when delete returned success.
Deleted(what, id, success) ==
    IF success
    THEN [success |-> TRUE, message |-> what \o " " \o id \o " deleted successfully"]
    ELSE [success |-> FALSE,
          error |-> IF what = "Issue" THEN "Failed to delete issue"
                    ELSE "Failed to delete page"]

\* The try block of a delete command once delete(id) returned r; what the
\* adapter returned is kept after the requests it sent.
TriedDelete(what, id, r) ==
    [raised |-> FALSE, error |-> "",
     result |-> IF r.raised THEN [success |-> FALSE, error |-> r.error]
                ELSE Deleted(what, id, r.value),
     calls |-> <<Invoked("delete", id, EmptyDict)>> \o r.calls
                 \o <<[layer |-> "returned", raised |-> r.raised, value |-> r.value]>>]

\* execute of a delete command: the identifier is read and left in args.
execute_delete(name, what, api_base, id_arg, args, o) ==
    IF MissingFields(DOMAIN args, RequiredFields(name)) # <<>>
    THEN [raised |-> TRUE,
          error |-> "Missing required fields: "
                        \o Join(MissingFields(DOMAIN args, RequiredFields(name)), ", "),
          result |-> EmptyDict, calls |-> <<>>]
    ELSE TriedDelete(what, args[id_arg], delete(api_base, args[id_arg], o))

DeleteArgs == {EmptyDict, [force |-> "text"]}

\* DeleteJiraIssueCommand.execute
ExecDeleteIssue ==
    \E args \in WithId(DeleteArgs, "issue_key", IssueKeys), o \in Deletions :
        CommandCalled("delete_jira_issue", args, <<o>>,
                      execute_delete("delete_jira_issue", "Issue", JiraApiBase \o "/issue/",
                                     "issue_key", args, o))

\* DeleteConfluencePageCommand.execute
ExecDeletePage ==
    \E args \in WithId(DeleteArgs, "page_id", PageIds), o \in Deletions :
        CommandCalled("delete_confluence_page", args, <<o>>,
                      execute_delete("delete_confluence_page", "Page",
                                     ConfluenceApiBase \o "/content/", "page_id", args, o))

CommandsNext ==
    \/ NextIteration
    \/ ExecUpdateIssue
    \/ ExecCreateSubtask
    \/ ExecUpdatePage
    \/ ExecSearchByParent
    \/ ExecJiraDebugInfo
    \/ ExecConfluenceDebugInfo
    \/ ExecDeleteIssue
    \/ ExecDeletePage

SpecCommands == CommandsInit /\ [][CommandsNext]_vars

(***************************************************************************)
(* Properties                                                               *)
(* In a state with event = "line" the variables line, response, written and *)
(* calls describe the iteration of the loop that has just handled line.     *)
(***************************************************************************)
ProtocolMethods == {"initialize", "tools/list", "tools/call", "set_config"}

\* The line handled last decoded to a JSON object.
HandledObject == event = "line" /\ line.kind = "object"

\* The line handled last is a direct command: an object whose method is none
\* of the protocol methods.
DirectCommand ==
    /\ HandledObject
    /\ line.method # <<>>
    /\ line.method[1] \notin ProtocolMethods

\* The line handled last is a tools/call naming a tool.
ToolCall ==
    /\ HandledObject
    /\ line.method = <<"tools/call">>
    /\ line.params.kind = "dict"
    /\ line.params.name # <<>>

\* The line handled last is a set_config carrying a config payload.
SetConfigLine ==
    /\ HandledObject
    /\ line.method = <<"set_config">>
    /\ line.params.kind = "dict"
    /\ line.params.config # <<>>

\* The names the handlers of one kind hold in chain.
GroupCommands(chain, kind) ==
    UNION { DOMAIN chain[i].commands : i \in { j \in DOMAIN chain : chain[j].kind = kind } }

\* name is a system command or is held by a backend handler of chain.
Resolves(chain, name) ==
    \/ name \in Range(SystemCommandNames)
    \/ name \in GroupCommands(chain, "jira")
    \/ name \in GroupCommands(chain, "confluence")

\* The tool names tools/list returns in the current state.
ListedTools == Range(_handle_tools_list(CurrentServer).tools)

\* The server's adapter of a backend.
AdapterOf(backend) == IF backend = "jira" THEN jira_api ELSE confluence_api

\* The tools tools/list advertises for a backend.
ToolNamesOf(backend) ==
    IF backend = "jira" THEN Range(JiraToolNames) ELSE Range(ConfluenceToolNames)

(***************************************************************************)
(* C1: a line that fails to decode as JSON is answered by exactly one line, *)
(* the error response {jsonrpc "2.0", id null, error {code -32700, message  *)
(* "Parse error"}}; no command is run, the server is left as it was, the    *)
(* loop stays running and goes back to reading, and every line that then    *)
(* decodes to an object is processed and answered.                          *)
(***************************************************************************)
C1_MalformedLineAnswered ==
    /\ [](event = "line" /\ line.kind = "malformed"
            => /\ response = [kind |-> "error", jsonrpc |-> "2.0", id |-> <<>>,
                              error |-> [code |-> -32700, message |-> "Parse error"]]
               /\ written = 1
               /\ calls = <<>>
               /\ state = "running")
    /\ [][line'.kind = "malformed"
            => UNCHANGED <<config, jira_api, confluence_api, command_handler>>]_vars
    /\ [][event = "line" /\ line.kind = "malformed"
            => event' = "ready" /\ state' = "running"]_vars
    /\ [][state = "running" /\ event = "ready" /\ event' = "line" /\ line'.kind = "object"
            => written' = 1 /\ response'.kind = "result" /\ state' = "running"]_vars

\* C1 witness: a malformed line has been answered by the parse-error response
\* and the loop is still running.
C1_Witness ==
    /\ event = "line"
    /\ line.kind = "malformed"
    /\ response = ParseErrorResponse
    /\ written = 1
    /\ state = "running"

(***************************************************************************)
(* C2: the loop leaves the running state only on an interrupt or an         *)
(* unrecoverable I/O error (or when its input ends); no input line ends it, *)
(* whether the line fails to decode or decodes to any JSON value.           *)
(***************************************************************************)
C2_NoLineEndsLoop ==
    state = "terminated" => event \in {"interrupt", "ioerror", "eof"}

(***************************************************************************)
(* C3: while the loop is running every non-blank input line produces        *)
(* exactly one output line and a blank line produces none.                  *)
(***************************************************************************)
C3_OneOutputPerLine ==
    event = "line" => written = (IF line.kind = "blank" THEN 0 ELSE 1)

(***************************************************************************)
(* C4: the response to a decoded message carries the id of that message,    *)
(* null when the message has none.                                          *)
(***************************************************************************)
C4_ResponseEchoesId ==
    HandledObject => response.kind = "result" /\ response.id = line.id

\* C4 witness: a request with id 1 has been answered with id 1.
C4_Witness ==
    /\ HandledObject
    /\ line.id = <<1>>
    /\ response.kind = "result"
    /\ response.id = <<1>>

(***************************************************************************)
(* C5: in every reachable state each of ping, health, config_status and     *)
(* list_commands resolves and yields success true; ping yields "pong" and   *)
(* list_commands the same static table.                                     *)
(***************************************************************************)
C5_SystemCommandsSucceed ==
    DirectCommand /\ line.method[1] \in Range(SystemCommandNames)
    => /\ response.kind = "result"
       /\ "success" \in DOMAIN response.result
       /\ response.result.success
       /\ line.method[1] = "ping" => response.result.message = "pong"
       /\ line.method[1] = "list_commands"
            => response.result.commands = _get_available_commands

C7_ResolutionOrder ==
    DirectCommand
    => IF line.method[1] \in Range(SystemCommandNames)
       THEN calls = <<>> /\ response.result.success
       ELSE IF line.method[1] \in GroupCommands(command_handler, "jira")
       THEN Len(calls) = 1 /\ calls[1].api.backend = "jira"
       ELSE IF line.method[1] \in GroupCommands(command_handler, "confluence")
       THEN Len(calls) = 1 /\ calls[1].api.backend = "confluence"
       ELSE /\ calls = <<>>
            /\ response.result =
                 [success |-> FALSE, error |-> "Unknown command: " \o line.method[1]]

\* C7 witness: search_jira_issues, held by both backend groups, has been
\* executed on the Jira adapter.
C7_Witness ==
    /\ DirectCommand
    /\ line.method = <<"search_jira_issues">>
    /\ "search_jira_issues" \in GroupCommands(command_handler, "jira")
    /\ "search_jira_issues" \in GroupCommands(command_handler, "confluence")
    /\ Len(calls) = 1
    /\ calls[1].api.backend = "jira"

(***************************************************************************)
(* C8: after a set_config that succeeded with a configuration valid for     *)
(* Jira, tools/list includes the Jira tools; after a set_config with an     *)
(* empty configuration, Jira no longer validating, tools/list no longer     *)
(* includes them and no Jira command resolves.                              *)
(***************************************************************************)
C8_JiraToolsFollowConfiguration ==
    SetConfigLine /\ response.kind = "result" /\ response.result.success
    => /\ ( /\ line.params.config[1].kind = "dict"
            /\ "jira" \in DOMAIN line.params.config[1].items
            /\ line.params.config[1].items["jira"] = EntryDict(CompleteFields) )
          => Range(JiraToolNames) \subseteq ListedTools
       /\ ( /\ line.params.config[1].items = EmptyDict
            /\ ~validate_configuration(config, env).value.jira )
          => /\ Range(JiraToolNames) \cap ListedTools = {}
             /\ GroupCommands(command_handler, "jira") = {}

(***************************************************************************)
(* C9: in every reachable state the registry holds the commands of a        *)
(* backend exactly when the server holds that backend's adapter, and        *)
(* tools/list advertises the backend's tools exactly when they resolve.     *)
(***************************************************************************)
C9_RegistryMatchesAdapters ==
    \A backend \in Backends :
       /\ (GroupCommands(command_handler, backend) # {}) = AdapterOf(backend).present
       /\ \A name \in ToolNamesOf(backend) :
             (name \in ListedTools) = Resolves(command_handler, name)

(***************************************************************************)
(* C10: initialize returns the fixed descriptor (protocol version           *)
(* "2024-11-05", server name and version, empty tools capability) for every *)
(* params value and every shape of the config payload; never success false. *)
(***************************************************************************)
C10_InitializeReturnsDescriptor ==
    HandledObject /\ line.method = <<"initialize">>
    => /\ response.kind = "result"
       /\ response.result =
            [protocolVersion |-> "2024-11-05",
             capabilities |-> [tools |-> EmptyDict],
             serverInfo |-> [name |-> "mcp-atlassian-server", version |-> "1.0.0"]]

\* The line handled last is a set_config without a config field (params
\* absent, null, a list, or a dict without the key).
SetConfigWithoutConfig ==
    /\ HandledObject
    /\ line.method = <<"set_config">>
    /\ ~(line.params.kind = "dict" /\ line.params.config # <<>>)

\* Pushing payload and rebuilding from it raises: the payload has no copy(),
\* an entry of it is no dict, or a backend's url is no string.
PushRaises(payload) ==
    \/ payload.kind = "str"
    \/ /\ payload.kind = "dict"
       /\ \E b \in DOMAIN payload.items :
             \/ payload.items[b].kind = "scalar"
             \/ payload.items[b] = EntryDict(NumberUrlFields)

\* The construction of an adapter from payload raises.
AdapterConstructionRaises(payload) ==
    /\ payload.kind = "dict"
    /\ \E b \in DOMAIN payload.items : payload.items[b] = EntryDict(NumberUrlFields)

ToolCallArguments ==
    IF line.params.arguments = <<>> THEN {} ELSE line.params.arguments[1]

\* The message that invokes the tool of the tools/call handled last directly,
\* as a method with the same arguments.
DirectForm ==
    Message(line.id, line.params.name,
            Params("dict", <<>>, <<>>, <<>>, ToolCallArguments))

(***************************************************************************)
(* C12: tools/call with a name field returns the envelope {content: [{type  *)
(* "text", text}]} whose text is the serialization of the outcome that the  *)
(* same name, invoked directly as a method with the same arguments, returns *)
(* in that state (the backend answering alike), also when the outcome is a  *)
(* failure.                                                                 *)
(***************************************************************************)
C12_ToolCallWrapsDirectOutcome ==
    ToolCall
    => \E ok \in BOOLEAN :
          response.result =
            [content |->
               <<[type |-> "text",
                  text |-> json_dumps(
                      process_message(CurrentServer, env, DirectForm, ok).result)]>>]

\* The outcome carried by the response is a failure: success false and an
\* error string.
FailureOutcome ==
    /\ response.kind = "result"
    /\ DOMAIN response.result = {"success", "error"}
    /\ ~response.result.success

(***************************************************************************)
(* C13: the protocol-level error envelope is written only for lines that    *)
(* fail to decode; a decoded message always gets a result envelope, and     *)
(* when it has no method, or is a tools/call without a tool name, or names  *)
(* an unknown command, or lacks required fields, the outcome in that        *)
(* envelope has success false and an error string.                          *)
(***************************************************************************)
C13_ErrorChannelsSeparate ==
    event = "line"
    => /\ response.kind = "error" => line.kind = "malformed"
       /\ line.kind \notin {"blank", "malformed"}
          => /\ response.kind = "result"
             /\ line.method = <<>> => FailureOutcome
             /\ line.method = <<"tools/call">> /\ ~ToolCall => FailureOutcome
             /\ DirectCommand /\ ~Resolves(command_handler, line.method[1])
                => FailureOutcome
             /\ ( /\ DirectCommand
                  /\ Resolves(command_handler, line.method[1])
                  /\ MissingFields(line.params.fields,
                                   RequiredFields(line.method[1])) # <<>> )
                => FailureOutcome

\* The error text that lists the names of required that args lacks.
MissingText(args, required) ==
    "Missing required fields: "
    \o Join(SelectSeq(required, LAMBDA f : f \notin args), ", ")

\* name is held by a backend group of the registry and args lacks one of the
\* names it requires.
LacksRequired(name, args) ==
    /\ name \in GroupCommands(command_handler, "jira")
                \cup GroupCommands(command_handler, "confluence")
    /\ \E i \in DOMAIN RequiredFields(name) : RequiredFields(name)[i] \notin args

(***************************************************************************)
(* C14: a backend command invoked, directly or through tools/call, without  *)
(* one or more of its required arguments makes no backend call, and its     *)
(* outcome is success false with one error message that lists every missing *)
(* required name, in the order of the command's list.                       *)
(***************************************************************************)
C14_MissingArgumentsRejected ==
    /\ DirectCommand /\ LacksRequired(line.method[1], line.params.fields)
       => /\ calls = <<>>
          /\ response.kind = "result"
          /\ response.result =
               [success |-> FALSE,
                error |-> MissingText(line.params.fields, RequiredFields(line.method[1]))]
    /\ ToolCall /\ LacksRequired(line.params.name[1], ToolCallArguments)
       => /\ calls = <<>>
          /\ response.kind = "result"
          /\ response.result =
               [success |-> FALSE,
                error |-> MissingText(ToolCallArguments,
                                      RequiredFields(line.params.name[1]))]

\* C14 witness: create_jira_issue with only project given has been answered
\* with both missing names and without a backend call.
C14_Witness ==
    /\ DirectCommand
    /\ line.method = <<"create_jira_issue">>
    /\ line.params.fields = {"project"}
    /\ "create_jira_issue" \in GroupCommands(command_handler, "jira")
    /\ calls = <<>>
    /\ response.result =
         [success |-> FALSE, error |-> "Missing required fields: summary, issuetype"]

\* The command handled last made an adapter call and the call failed.
BackendCallFailed ==
    /\ event = "line"
    /\ calls # <<>>
    /\ calls[1].failed

(***************************************************************************)
(* C15: when the adapter call of a command fails, the command's outcome is  *)
(* {success false, error <message>} (inside the envelope for tools/call),   *)
(* it is written as a result, the loop stays running with the server        *)
(* unchanged and goes back to reading, and every line that then decodes to  *)
(* an object is answered.                                                   *)
(***************************************************************************)
C15_BackendFailureCaught ==
    /\ [](BackendCallFailed
            => /\ state = "running"
               /\ written = 1
               /\ response.kind = "result"
               /\ DirectCommand
                  => response.result = [success |-> FALSE, error |-> BackendError]
               /\ ToolCall
                  => response.result =
                       [content |->
                          <<[type |-> "text",
                             text |-> json_dumps([success |-> FALSE,
                                                  error |-> BackendError])]>>])
    /\ [][BackendCallFailed'
            => UNCHANGED <<config, jira_api, confluence_api, command_handler>>]_vars
    /\ [][BackendCallFailed => event' = "ready" /\ state' = "running"]_vars
    /\ [][state = "running" /\ event = "ready" /\ event' = "line" /\ line'.kind = "object"
            => written' = 1 /\ response'.kind = "result"]_vars

\* C15 witness: a search_jira_issues sent through tools/call, whose backend
\* call failed, has been answered with the failure inside the envelope.
C15_Witness ==
    /\ BackendCallFailed
    /\ ToolCall
    /\ line.params.name = <<"search_jira_issues">>
    /\ state = "running"
    /\ response.result =
         [content |->
            <<[type |-> "text",
               text |-> json_dumps([success |-> FALSE, error |-> BackendError])]>>]

(***************************************************************************)
(* Properties of the ConfigManager (under SpecConfig)                       *)
(***************************************************************************)
\* A call of op has just returned.
CallReturned(op) ==
    /\ event = "line"
    /\ line.kind = "call"
    /\ line.op = op
    /\ response.kind = "return"

RequiredFieldNames == {"url", "username", "api_token"}

\* The value the environment e gives field f of backend b: the lowercase
\* variable when set, else the uppercase one when set, else default.
EnvValue(e, b, f, default) ==
    IF e[EnvLower(b, f)] # Unset THEN e[EnvLower(b, f)]
    ELSE IF e[EnvUpper(b, f)] # Unset THEN e[EnvUpper(b, f)]
    ELSE default

\* The value the store cfg holds for field f of backend b; "" when it holds
\* none.
StoredField(cfg, b, f) ==
    IF /\ cfg.kind = "dict"
       /\ b \in DOMAIN cfg.items
       /\ cfg.items[b].kind = "dict"
       /\ f \in DOMAIN cfg.items[b].items
    THEN cfg.items[b].items[f]
    ELSE ""

\* The resolved value of field f of backend b over the store cfg: the stored
\* value when present and non-empty, else the environment's, and "basic" for
\* an auth_type found nowhere.
ExpectedField(cfg, e, b, f) ==
    IF StoredField(cfg, b, f) # ""
    THEN StoredField(cfg, b, f)
    ELSE EnvValue(e, b, f, IF f = "auth_type" THEN "basic" ELSE "")

\* The environment alone gives a backend its url, username and api_token.
EnvComplete(e) ==
    \E b \in Backends : \A f \in RequiredFieldNames : EnvValue(e, b, f, "") # ""

(***************************************************************************)
(* C16: a set_config that returns replaces the store wholesale: whatever    *)
(* was stored before, the store is the one a fresh manager would hold after *)
(* the same push, a top-level key the payload lacks resolves to the         *)
(* default, and a backend field the payload lacks resolves to the           *)
(* environment value or its default.                                        *)
(***************************************************************************)
C16_PushReplacesStore ==
    CallReturned("set_config")
    => /\ config = set_config(ConfigNone, line.payload).config
       /\ config.kind # "none"
       /\ \A k \in Backends \cup {"initialized_from_env"} :
             k \notin DOMAIN line.payload.items => get(config, k, Default) = Default
       /\ \A b \in Backends, f \in FieldNames :
             ( /\ StoredField(line.payload, b, f) = ""
               /\ ~get_backend_config(config, env, b).raised
               /\ ~(b \in DOMAIN line.payload.items /\ f \in DOMAIN line.payload.items[b].items) )
             => get_backend_config(config, env, b).value[f]
                  = EnvValue(env, b, f, IF f = "auth_type" THEN "basic" ELSE "")

\* C16 witness: a store that held a Jira url has been replaced by a payload
\* without a jira key, and jira.url now resolves to the default.
C16_Witness ==
    /\ CallReturned("set_config")
    /\ StoredField(line.before, "jira", "url") = "https://a"
    /\ line.payload.kind = "dict"
    /\ "jira" \notin DOMAIN line.payload.items
    /\ "confluence" \in DOMAIN line.payload.items
    /\ get(config, "jira.url", Default) = Default

(***************************************************************************)
(* C17: a server started in an environment that gives no backend its url,   *)
(* username and api_token starts with the store unset; after every          *)
(* set_config that returns, also one with empty or null content, the store  *)
(* is set; is_configured() answers whether the store is set; and a set      *)
(* store never becomes unset again.                                         *)
(***************************************************************************)
C17_ConfiguredOnceSet ==
    /\ (~EnvComplete(env) => config.kind = "none")
    /\ [](CallReturned("set_config") => config.kind # "none")
    /\ [](CallReturned("is_configured") => response.value = (config.kind # "none"))
    /\ [][config.kind # "none" => config'.kind # "none"]_vars

\* C17 witness: is_configured() has answered true on a store that a push of
\* empty content had set.
C17_Witness ==
    /\ CallReturned("is_configured")
    /\ config = ConfigDict(EmptyDict)
    /\ response.value = TRUE

(***************************************************************************)
(* C18: get(key, default) returns the value reached by following the        *)
(* segments of key through the stored nested mapping, and the default when  *)
(* the store is unset, a segment is missing, or a segment is looked up in a *)
(* value that is no mapping.                                                *)
(***************************************************************************)
C18_GetFollowsSegments ==
    CallReturned("get")
    => response.value =
         CASE line.key \in {"jira", "initialized_from_env", "logging"} ->
                 IF config.kind = "dict" /\ line.key \in DOMAIN config.items
                 THEN config.items[line.key] ELSE Default
           [] line.key \in {"jira.url", "jira.username", "confluence.username"} ->
                 LET b == IF line.key = "confluence.username" THEN "confluence" ELSE "jira"
                     f == IF line.key = "jira.url" THEN "url" ELSE "username"
                 IN  IF /\ config.kind = "dict"
                        /\ b \in DOMAIN config.items
                        /\ config.items[b].kind = "dict"
                        /\ f \in DOMAIN config.items[b].items
                     THEN config.items[b].items[f] ELSE Default
           [] OTHER -> Default

\* C18 witness: get("jira.url") has returned the stored url.
C18_Witness ==
    /\ CallReturned("get")
    /\ line.key = "jira.url"
    /\ StoredField(config, "jira", "url") = "https://a"
    /\ response.value = "https://a"

(***************************************************************************)
(* C19: for each backend and each of url, username, api_token, auth_type    *)
(* the resolved value is the stored value when it is present and non-empty, *)
(* otherwise the lowercase environment variable when set, otherwise the     *)
(* uppercase one; auth_type is "basic" when found nowhere.                  *)
(***************************************************************************)
C19_FieldResolution ==
    CallReturned("get_backend_config")
    => \A f \in FieldNames :
          response.value[f] = ExpectedField(line.before, env, line.backend, f)

(***************************************************************************)
(* C20: validate_configuration reports a backend true exactly when its url, *)
(* username and api_token are all non-empty after environment fallback, and *)
(* overall is the disjunction of the two backend results.                   *)
(***************************************************************************)
C20_ValidationReport ==
    CallReturned("validate_configuration")
    => /\ \A b \in Backends :
             response.value[b]
               = (\A f \in RequiredFieldNames : ExpectedField(line.before, env, b, f) # "")
       /\ response.value.overall = (response.value.jira \/ response.value.confluence)

\* C20 witness: with an empty stored url and the Jira variables in the
\* environment, Jira has been reported valid, Confluence not, overall valid.
C20_Witness ==
    /\ CallReturned("validate_configuration")
    /\ line.before.kind = "dict"
    /\ "jira" \in DOMAIN line.before.items
    /\ line.before.items["jira"] =
         EntryDict([url |-> "", username |-> "user", api_token |-> "token"])
    /\ env = EnvJira
    /\ response.value = [jira |-> TRUE, confluence |-> FALSE, overall |-> TRUE]

(***************************************************************************)
(* C21: the snapshot get_all_config returns holds no raw value of a field   *)
(* named api_token, token or password, wherever the field occurs in the     *)
(* store: inside a backend entry and at the top level alike it shows "***"  *)
(* for a non-empty value and "not set" for an empty one.                    *)
(***************************************************************************)
C21_SnapshotHidesSecrets ==
    (CallReturned("get_all_config") /\ config.kind = "dict")
    => \A k \in DOMAIN config.items :
          /\ config.items[k].kind = "dict"
             => \A f \in SecretNames \cap DOMAIN config.items[k].items :
                   response.value[k].items[f]
                     = IF config.items[k].items[f] # "" THEN "***" ELSE "not set"
          /\ (k \in SecretNames /\ "text" \in DOMAIN config.items[k])
             => response.value[k]
                  = EntryText(IF config.items[k].text # "" THEN "***" ELSE "not set")

(***************************************************************************)
(* Properties of the request builders (under SpecBuilder)                   *)
(***************************************************************************)
\* The calls of log made after its last build().
SinceBuild(log) ==
    SubSeq(log,
           1 + CHOOSE i \in 0..Len(log) :
                  /\ i > 0 => log[i].op = "build"
                  /\ \A j \in (i + 1)..Len(log) : log[j].op # "build",
           Len(log))

\* The argument of the last call of op in log.
LastArg(log, op) ==
    log[CHOOSE i \in 1..Len(log) :
           /\ log[i].op = op
           /\ \A j \in (i + 1)..Len(log) : log[j].op # op].args[1]

\* The payload field a setter writes.
PayloadKey(op) ==
    CASE op = "set_summary"     -> "summary"
      [] op = "set_epic_link"   -> "customfield_10014"
      [] op = "set_title"       -> "title"
      [] op = "set_max_results" -> "maxResults"
      [] op = "set_start_at"    -> "startAt"
      [] op = "set_parent"      -> "ancestors"
      [] OTHER                  -> "jql"

\* The text of the clause an add_* call stands for.
ClauseOf(call) ==
    (IF call.op = "add_project" THEN "project" ELSE "status")
        \o " = \"" \o call.args[1] \o "\""

RECURSIVE ExpectedJql(_)
\* The clauses of the add_* calls adds, in call order, joined with " AND ".
ExpectedJql(adds) ==
    IF Len(adds) = 1 THEN ClauseOf(adds[1])
    ELSE ExpectedJql(SubSeq(adds, 1, Len(adds) - 1)) \o " AND " \o ClauseOf(adds[Len(adds)])

AddCalls(log) == SelectSeq(log, LAMBDA c : c.op \in {"add_project", "add_status"})

\* The payload the setter calls of log accumulate.
ExpectedPayload(log) ==
    [k \in { IF log[i].op \in {"set_summary", "set_epic_link"}
             THEN "fields" ELSE PayloadKey(log[i].op) : i \in 1..Len(log) } |->
        CASE k = "fields" ->
                [f \in { PayloadKey(log[i].op) : i \in 1..Len(log) } |->
                    Str(LastArg(log, IF f = "summary" THEN "set_summary" ELSE "set_epic_link"))]
          [] k = "ancestors" ->
                [i \in 1..Len(SelectSeq(log, LAMBDA c : c.op = "set_parent")) |->
                    SelectSeq(log, LAMBDA c : c.op = "set_parent")[i].args[1]]
          [] k = "jql" -> Str(ExpectedJql(AddCalls(log)))
          [] k = "title" -> Str(LastArg(log, "set_title"))
          [] k = "maxResults" -> Str(LastArg(log, "set_max_results"))
          [] OTHER -> Str(LastArg(log, "set_start_at"))]

BuildReturned == line.kind = "call" /\ line.op = "build"

(***************************************************************************)
(* C22: build() returns the payload accumulated by the setter calls made    *)
(* since the last build() and leaves the builder empty; a build() with no   *)
(* setter call since the last build() returns {} (for the filter builder    *)
(* without a jql field); and the payload a build() returned keeps the       *)
(* content it was returned with whatever is called on the builder later.    *)
(***************************************************************************)
C22_BuildReturnsAndResets ==
    /\ BuildReturned
       => /\ response.payload = ExpectedPayload(SinceBuild(line.log))
          /\ SinceBuild(line.log) = <<>> => response.payload = EmptyDict
          /\ heap[builder._request] = EmptyDict
          /\ builder._jql_parts = <<>>
          /\ builder._request # response.value
    /\ response.kind = "return" => Deref(heap, response.value) = response.payload

\* C22 witness: setters have been called on an issue builder after a build()
\* that returned a payload with fields, and the builder holds fields again.
C22_Witness ==
    /\ builder.class = "JiraIssueBuilder"
    /\ line.kind = "call"
    /\ line.op = "set_summary"
    /\ response.kind = "return"
    /\ "fields" \in DOMAIN response.payload
    /\ "fields" \in DOMAIN heap[builder._request]
    /\ Deref(heap, builder._request) # response.payload

(***************************************************************************)
(* C23: the jql of the payload the filter builder builds is the clauses of  *)
(* the add_* calls joined with " AND " in call order, duplicates kept; with *)
(* no add_* call the payload has no jql field; maxResults and startAt are   *)
(* present exactly when they were set.                                      *)
(***************************************************************************)
C23_FilterQueryInCallOrder ==
    (BuildReturned /\ builder.class = "JiraFilterBuilder")
    => /\ IF AddCalls(SinceBuild(line.log)) = <<>>
          THEN "jql" \notin DOMAIN response.payload
          ELSE /\ "jql" \in DOMAIN response.payload
               /\ response.payload["jql"].str = ExpectedJql(AddCalls(SinceBuild(line.log)))
       /\ \A op \in {"set_max_results", "set_start_at"} :
             PayloadKey(op) \in DOMAIN response.payload
               <=> \E i \in 1..Len(SinceBuild(line.log)) : SinceBuild(line.log)[i].op = op

\* C23 witness: a build() after the same clause was added twice around
\* another one.
C23_Witness ==
    /\ BuildReturned
    /\ response.payload =
         [jql |-> Str("project = \"A\" AND status = \"B\" AND project = \"A\"")]

(***************************************************************************)
(* Properties of the protocol loop, continued (under Spec)                  *)
(***************************************************************************)
\* The line handled last is an initialize or a set_config carrying a config
\* payload.
ConfigurationPath ==
    /\ HandledObject
    /\ line.method \in {<<"initialize">>, <<"set_config">>}
    /\ line.params.kind = "dict"
    /\ line.params.config # <<>>

(***************************************************************************)
(* C24: handling a line that is neither an initialize nor a set_config      *)
(* carrying a configuration leaves the stored configuration, the two        *)
(* adapters and the registry exactly as they were.                          *)
(***************************************************************************)
C24_OnlyConfigurationPathsMutate ==
    [][(event' = "line" /\ ~ConfigurationPath')
         => UNCHANGED <<config, jira_api, confluence_api, command_handler>>]_vars

\* C24 witness: config_status has been answered on a configured server whose
\* store holds a Jira entry.
C24_Witness ==
    /\ HandledObject
    /\ line.method = <<"config_status">>
    /\ response.kind = "result"
    /\ response.result.success
    /\ config.kind = "dict"
    /\ "jira" \in DOMAIN config.items
    /\ config.items["jira"].kind = "dict"
    /\ jira_api.present

(***************************************************************************)
(* C25: requests are handled one at a time. When the loop has handled a     *)
(* line that decodes to an object and is still running, the response to     *)
(* that line has been written (one line, carrying its id) and every backend *)
(* call made belongs to the command that line names; a line is read only    *)
(* when no response is pending and no backend call of an earlier line is    *)
(* outstanding.                                                             *)
(***************************************************************************)
C25_OneRequestAtATime ==
    /\ []((HandledObject /\ state = "running")
            => /\ written = 1
               /\ response.kind = "result"
               /\ response.id = line.id
               /\ \A i \in DOMAIN calls :
                     /\ DirectCommand => calls[i].method = AdapterMethod(line.method[1])
                     /\ ToolCall => calls[i].method = AdapterMethod(line.params.name[1])
                     /\ DirectCommand \/ ToolCall)
    /\ [][event' = "line"
            => /\ event = "ready"
               /\ calls = <<>>
               /\ written = 0
               /\ response = NoResponse]_vars

\* C25 witness: a tools/call whose command called the backend has been
\* answered.
C25_Witness ==
    /\ ToolCall
    /\ state = "running"
    /\ calls # <<>>
    /\ written = 1
    /\ response.kind = "result"

(***************************************************************************)
(* C26: once an initialize or set_config has pushed a configuration,        *)
(* whenever config_status reports a backend as valid the server holds that  *)
(* backend's adapter and the registry resolves that backend's commands.     *)
(***************************************************************************)
C26_ValidBackendHasAdapter ==
    ( /\ HandledObject
      /\ line.method = <<"config_status">>
      /\ response.kind = "result"
      /\ response.result.success
      /\ config # ServerInit(env).config )
    => \A backend \in Backends :
          response.result.validation[backend]
          => /\ AdapterOf(backend).present
             /\ IF backend = "jira"
                THEN Range(JiraCommandNames) \subseteq GroupCommands(command_handler, "jira")
                ELSE Range(ConfluenceCommandNames)
                       \subseteq GroupCommands(command_handler, "confluence")


(***************************************************************************)
(* Properties of the commands and adapters (under SpecCommands)             *)
(***************************************************************************)
\* execute() of the command op was called and did not raise.
CommandReturned(op) ==
    /\ event = "line"
    /\ line.kind = "call"
    /\ line.op = op
    /\ response.kind = "return"

\* The HTTP requests sent during the call, in order.
HttpSent == SelectSeq(calls, LAMBDA c : c.layer = "http")

HttpSentWith(verb) == { i \in DOMAIN HttpSent : HttpSent[i].verb = verb }

\* For each sub-call of a debug-info command, in the order the sub-calls are
\* made: its data field and its error field.
DebugFields(op) ==
    IF op = "get_jira_debug_info"
    THEN << <<"projects", "projects_error">>, <<"issue_types", "issue_types_error">>,
            <<"current_user", "user_error">> >>
    ELSE << <<"spaces", "spaces_error">>, <<"current_user", "user_error">> >>

\* C27: whatever the outcomes of the sub-calls, a debug-info command returns
\* success true, and for each sub-call its result holds exactly one of the
\* data field and the error field of that sub-call: the data field when the
\* sub-call succeeded, the error field when its request failed, whatever
\* became of the other sub-calls.
C27_DebugInfoDegradesPerSubCall ==
    \A op \in {"get_jira_debug_info", "get_confluence_debug_info"} :
        CommandReturned(op) =>
            /\ response.value.success = TRUE
            /\ Len(line.http) = Len(DebugFields(op))
            /\ \A i \in DOMAIN DebugFields(op) :
                /\ (DebugFields(op)[i][1] \in DOMAIN response.value.debug_info)
                     # (DebugFields(op)[i][2] \in DOMAIN response.value.debug_info)
                /\ line.http[i].status = "ok"
                     => DebugFields(op)[i][1] \in DOMAIN response.value.debug_info
                /\ line.http[i].status = "fail"
                     => DebugFields(op)[i][2] \in DOMAIN response.value.debug_info

\* C27 witness: the Jira debug info was asked for, the request for the
\* projects failed and the other two succeeded; the result names the error of
\* the first and holds the data of the other two.
C27_Witness ==
    /\ CommandReturned("get_jira_debug_info")
    /\ line.http[1].status = "fail"
    /\ line.http[2].status = "ok"
    /\ line.http[3].status = "ok"
    /\ DOMAIN response.value.debug_info = {"projects_error", "issue_types", "current_user"}

\* C28: create_jira_subtask first fetches the parent issue; a create request
\* is sent only after it and carries the project of the fetched parent, the
\* given parent key and the issue type Sub-task, whatever project, parent or
\* issue type the caller supplied; when the parent cannot be fetched no
\* create request is sent and the outcome is success false.
C28_SubtaskInheritsFromParent ==
    CommandReturned("create_jira_subtask") =>
        /\ HttpSent # <<>>
        /\ HttpSent[1].verb = "GET"
        /\ HttpSent[1].endpoint = "/rest/api/3/issue/" \o line.args.parent_key
        /\ \A i \in HttpSentWith("POST") :
            /\ i > 1
            /\ HttpSent[i].data.fields.project = [key |-> line.http[1].project]
            /\ HttpSent[i].data.fields.parent = [key |-> line.args.parent_key]
            /\ HttpSent[i].data.fields.issuetype = [name |-> "Sub-task"]
        /\ line.http[1].status # "ok"
            => HttpSentWith("POST") = {} /\ response.value.success = FALSE

\* C28 witness: a subtask was created under a parent of project OPS by a
\* caller that supplied a project and an issue type of its own.
C28_Witness ==
    /\ CommandReturned("create_jira_subtask")
    /\ "project" \in DOMAIN line.args
    /\ "issuetype" \in DOMAIN line.args
    /\ line.http[1].project = "OPS"
    /\ HttpSentWith("POST") # {}
    /\ response.value.success = TRUE

\* C29: update_confluence_page first fetches the current page; a write
\* request is sent only after a fetch that gave a version, and carries that
\* version number plus one; when the fetch fails or gives no version no write
\* request is sent and the outcome is success false.
C29_UpdateIncrementsFetchedVersion ==
    CommandReturned("update_confluence_page") =>
        /\ HttpSent # <<>>
        /\ HttpSent[1].verb = "GET"
        /\ HttpSent[1].endpoint = "/rest/api/content/" \o line.args.page_id
                                  \o "?expand=body.storage,space,ancestors"
        /\ \A i \in HttpSentWith("PUT") :
            /\ i > 1
            /\ line.http[1].status = "ok"
            /\ HttpSent[i].endpoint = "/rest/api/content/" \o line.args.page_id
            /\ HttpSent[i].data.version = [number |-> line.http[1].version + 1]
        /\ line.http[1].status # "ok"
            => HttpSentWith("PUT") = {} /\ response.value.success = FALSE

\* C29 witness: a page fetched at version 7 was written with version 8.
C29_Witness ==
    /\ CommandReturned("update_confluence_page")
    /\ line.http[1].status = "ok"
    /\ line.http[1].version = 7
    /\ \E i \in HttpSentWith("PUT") : HttpSent[i].data.version.number = 8
    /\ response.value.success = TRUE

\* The identifying argument of each command that has one.
Identifier ==
    [update_jira_issue |-> "issue_key", update_confluence_page |-> "page_id",
     create_jira_subtask |-> "parent_key",
     search_confluence_pages_by_parent |-> "parent_id"]

\* C30: update_jira_issue, update_confluence_page, create_jira_subtask and
\* search_confluence_pages_by_parent call their adapter method once, with the
\* value of the identifying argument as the resource identifier and with a
\* payload that holds every other supplied argument with its value and does
\* not hold the identifying argument.
C30_IdentifierLeavesPayload ==
    \A op \in DOMAIN Identifier :
        CommandReturned(op) =>
            /\ { i \in DOMAIN calls : calls[i].layer = "adapter" } = {1}
            /\ calls[1].id = line.args[Identifier[op]]
            /\ DOMAIN calls[1].data = DOMAIN line.args \ {Identifier[op]}
            /\ \A k \in DOMAIN calls[1].data : calls[1].data[k] = line.args[k]

\* C30 witness: update_jira_issue was called with a summary and a priority
\* besides the issue key; the adapter received the two as the payload.
C30_Witness ==
    /\ CommandReturned("update_jira_issue")
    /\ DOMAIN line.args = {"issue_key", "summary", "priority"}
    /\ calls[1].id = line.args.issue_key
    /\ DOMAIN calls[1].data = {"summary", "priority"}


\* What the adapter method returned to the command.
AdapterReturned == { i \in DOMAIN calls : calls[i].layer = "returned" }

\* C31: delete_jira_issue and delete_confluence_page, given the identifier,
\* call the adapter's delete exactly once, for that identifier, and one DELETE
\* request is sent; when delete returns a boolean the outcome's success field
\* is that boolean, with a message and no error when true and an error and no
\* message when false; when delete raises the outcome is success false.
C31_DeleteOutcomeIsAdapterResult ==
    \A op \in {"delete_jira_issue", "delete_confluence_page"} :
        CommandReturned(op) =>
            /\ { i \in DOMAIN calls : calls[i].layer = "adapter" } = {1}
            /\ calls[1].method = "delete"
            /\ calls[1].id = line.args[IF op = "delete_jira_issue"
                                       THEN "issue_key" ELSE "page_id"]
            /\ Len(HttpSent) = 1
            /\ HttpSent[1].verb = "DELETE"
            /\ \A i \in AdapterReturned :
                /\ ~calls[i].raised =>
                    /\ response.value.success = calls[i].value
                    /\ calls[i].value => DOMAIN response.value = {"success", "message"}
                    /\ ~calls[i].value => DOMAIN response.value = {"success", "error"}
                /\ calls[i].raised => response.value.success = FALSE
            /\ AdapterReturned = {Len(calls)}

\* C31 witness: the page was not deleted (delete returned false) and the
\* command answered success false with an error.
C31_Witness ==
    /\ CommandReturned("delete_confluence_page")
    /\ \E i \in AdapterReturned : ~calls[i].raised /\ calls[i].value = FALSE
    /\ response.value.success = FALSE
    /\ response.value.error = "Failed to delete page"


(***************************************************************************)
(* Properties of the startup and of configuration pushes                    *)
(***************************************************************************)
\* The environment gives backend b its url, username and api_token.
EnvSupplies(e, b) == \A f \in RequiredFieldNames : EnvValue(e, b, f, "") # ""

\* The commands of the group of backend b in the chain, when it has one.
GroupOf(chain, b) ==
    IF \E i \in DOMAIN chain : chain[i].kind = b
    THEN chain[CHOOSE i \in DOMAIN chain : chain[i].kind = b].commands
    ELSE EmptyDict

\* C32 (under SpecConfig, where only the store changes after startup): the
\* constructor leaves the store set if and only if the environment supplies
\* url, username and api_token for at least one backend; it then holds an
\* adapter and a group of commands for exactly the backends so supplied, in
\* the chain system, Jira, Confluence; otherwise the store is unset, no
\* adapter exists and the chain is the system handler alone. The constructor
\* returns in every environment: the server is running.
C32_StartupFollowsEnvironment ==
    /\ state = "running"
    /\ (ServerInit(env).config.kind # "none")
          <=> (\E b \in Backends : EnvSupplies(env, b))
    /\ \A b \in Backends :
          /\ AdapterOf(b).present <=> EnvSupplies(env, b)
          /\ DOMAIN GroupOf(command_handler, b) # {} <=> EnvSupplies(env, b)
    /\ (\E b \in Backends : EnvSupplies(env, b))
          => [i \in DOMAIN command_handler |-> command_handler[i].kind]
                = <<"system", "jira", "confluence">>
    /\ ~(\E b \in Backends : EnvSupplies(env, b))
          => /\ command_handler = <<SystemCommandHandler>>
             /\ ServerInit(env).config = ConfigNone

\* C32 witness: the server has just started in an environment that supplies
\* Confluence alone; the store is set, the Confluence adapter and its
\* commands exist, Jira has neither.
C32_Witness ==
    /\ line = NoLine
    /\ config = ServerInit(env).config
    /\ config.kind = "dict"
    /\ EnvSupplies(env, "confluence")
    /\ ~EnvSupplies(env, "jira")
    /\ confluence_api.present
    /\ ~jira_api.present
    /\ DOMAIN GroupOf(command_handler, "confluence") = Range(ConfluenceCommandNames)


\* The line handled last is an initialize or a set_config message.
ConfigurationMessage ==
    /\ HandledObject
    /\ line.method \in {<<"initialize">>, <<"set_config">>}

\* The chain is system, Jira, Confluence, and each backend group holds every
\* command of the backend bound to the adapter the server holds, or nothing
\* when the server holds none.
ChainIsComplete ==
    /\ [i \in DOMAIN command_handler |-> command_handler[i].kind]
          = <<"system", "jira", "confluence">>
    /\ \A b \in Backends :
          GroupOf(command_handler, b) =
              IF AdapterOf(b).present
              THEN [n \in Range(IF b = "jira" THEN JiraCommandNames
                                ELSE ConfluenceCommandNames) |-> AdapterOf(b)]
              ELSE EmptyDict

\* C33: the chain always starts with the system handler, and handling an
\* initialize or a set_config message, whether it succeeds or fails, leaves
\* either the very chain that was in place before it or a chain built anew as
\* a whole: system, Jira, Confluence, both backend groups built from the
\* adapters the server now holds.
C33_RegistryReplacedAsAWhole ==
    /\ [](command_handler # <<>> /\ command_handler[1].kind = "system")
    /\ [][(event' = "line" /\ ConfigurationMessage')
            => (command_handler' = command_handler \/ ChainIsComplete')]_vars

\* C33 witness: a set_config was answered with success and the server holds
\* both adapters and the complete chain built from them.
C33_Witness ==
    /\ ConfigurationMessage
    /\ line.method = <<"set_config">>
    /\ response.kind = "result"
    /\ response.result.success
    /\ jira_api.present
    /\ confluence_api.present
    /\ ChainIsComplete


\* The configuration the line handled last pushed.
PushedConfig == line.params.config[1]

\* The line handled last pushed a configuration of dict entries one of which
\* has a url that is no string: constructing that backend's adapter raised.
ConstructionRaised ==
    /\ ConfigurationPath
    /\ PushedConfig.kind = "dict"
    /\ \A b \in DOMAIN PushedConfig.items : PushedConfig.items[b].kind = "dict"
    /\ \E b \in DOMAIN PushedConfig.items :
          /\ ~IsStr(DictGet(PushedConfig.items[b].items, "url", ""))
          /\ Truthy(DictGet(PushedConfig.items[b].items, "username", ""))
          /\ Truthy(DictGet(PushedConfig.items[b].items, "api_token", ""))

\* C34: handling a set_config or an initialize during which the construction
\* of an adapter raised leaves the stored configuration, both adapters and
\* the chain exactly as they were before the line was handled.
C34_FailedPushLeavesNoTrace ==
    [][(event' = "line" /\ ConstructionRaised')
         => UNCHANGED <<config, jira_api, confluence_api, command_handler>>]_vars

\* C35: every command a backend group of the chain holds is bound to the
\* adapter the server holds for that backend, and an adapter the server holds
\* was constructed from the url, username and api_token the stored
\* configuration now resolves for its backend.
C35_CommandsUseCurrentAdapter ==
    \A b \in Backends :
        /\ \A n \in DOMAIN GroupOf(command_handler, b) :
              GroupOf(command_handler, b)[n] = AdapterOf(b)
        /\ AdapterOf(b).present
              => /\ AdapterOf(b).base_url = rstrip(ExpectedField(config, env, b, "url"))
                 /\ AdapterOf(b).username = ExpectedField(config, env, b, "username")
                 /\ AdapterOf(b).api_token = ExpectedField(config, env, b, "api_token")

\* C36 (under SpecConfig, where the adapters are those the startup built, for
\* the store the startup left): an adapter the server holds authenticates
\* with a bearer token when the auth_type resolved for its backend is
\* "bearer", and with basic authentication only when it is "basic".
C36_AdapterAuthFollowsResolvedType ==
    config = ServerInit(env).config
    => \A b \in Backends :
          AdapterOf(b).present
          => /\ ExpectedField(config, env, b, "auth_type") = "bearer"
                  => AdapterOf(b).auth = "bearer"
             /\ AdapterOf(b).auth = "basic"
                  => ExpectedField(config, env, b, "auth_type") = "basic"

====
